---- MODULE Spec2Model ----
(***************************************************************************)
(* Model of the batch-processing core of the Export Layers / Batcher       *)
(* plug-in: Batcher.run() (export_layers/batcher.py), the export           *)
(* procedure (export_layers/export.py) and the older LayerExporter.export()*)
(* (export_layers/exportlayers.py).                                        *)
(*                                                                         *)
(* One behaviour of the model is one run over a tree of NumItems layers.   *)
(* The environment chooses what the host does: the answers of the          *)
(* overwrite chooser, the outcome of every call of the file export         *)
(* procedure, whether a procedure or a hook raises, and when stop() is     *)
(* called.                                                                 *)
(***************************************************************************)
EXTENDS Naturals, Sequences, FiniteSets, TLC

(* ------------------------------ bounds --------------------------------- *)

\* Number of layers in the item tree of the processed image.
NumItems == 2

(* --------------------------- enumerations ------------------------------ *)

RUN_INTERACTIVE == "RUN_INTERACTIVE"
RUN_NONINTERACTIVE == "RUN_NONINTERACTIVE"
RUN_WITH_LAST_VALS == "RUN_WITH_LAST_VALS"

RunModes == {RUN_INTERACTIVE, RUN_NONINTERACTIVE, RUN_WITH_LAST_VALS}

NOT_EXPORTED_YET == "NOT_EXPORTED_YET"
EXPORT_SUCCESSFUL == "EXPORT_SUCCESSFUL"
FORCE_INTERACTIVE == "FORCE_INTERACTIVE"
USE_DEFAULT_FILE_EXTENSION == "USE_DEFAULT_FILE_EXTENSION"

ExportStatuses ==
  {NOT_EXPORTED_YET, EXPORT_SUCCESSFUL, FORCE_INTERACTIVE, USE_DEFAULT_FILE_EXTENSION}

\* pygimplib.overwrite.OverwriteModes; DO_NOTHING is what handle_overwrite
\* returns when the file does not exist, None is the value before any call.
OverwriteModes ==
  {"REPLACE", "SKIP", "RENAME_NEW", "RENAME_EXISTING", "CANCEL", "DO_NOTHING"}

ChooserModes == {"REPLACE", "SKIP", "RENAME_NEW", "RENAME_EXISTING", "CANCEL"}

(* ------------------------ exception messages --------------------------- *)

\* A message of a RuntimeError of the export procedure is a sequence of
\* phrases; only the phrases the code searches for are told apart.
FailureMessages ==
  { <<"failed">>,
    <<"Operation Canceled">>,
    <<"Calling Error">>,
    <<"calling error", "cancelled">> }

\* str.lower() on the phrases of the model.
Lower(s) ==
  CASE s = "Operation Canceled" -> "operation canceled"
    [] s = "Calling Error" -> "calling error"
    [] s = "PNG" -> "png"
    [] s = "JPG" -> "jpg"
    [] s = "JPEG" -> "jpeg"
    [] OTHER -> s

\* `needle in phrase` for the lower-cased phrases of the model.
Contains(phrase, needle) ==
  \/ phrase = needle
  \/ phrase = "operation canceled" /\ needle = "canceled"

\* `needle in message.lower()`
MessageContains(message, needle) ==
  \E i \in 1..Len(message) : Contains(Lower(message[i]), needle)

\* Variant that knows the British spelling only.
CanceledOnlyIfCancelled(exception_message) ==
  MessageContains(exception_message, "cancelled")

_was_export_canceled_by_user(exception_message) ==
  \E needle \in {"cancelled", "canceled"} : MessageContains(exception_message, needle)

\* Variant that retries whatever the run mode of the failed call was.
RetryWhateverRunMode(exception_message, current_run_mode) ==
  /\ MessageContains(exception_message, "calling error")
  /\ current_run_mode \in RunModes

\* Variant that retries under RUN_NONINTERACTIVE only.
RetryOnlyWhenNoninteractive(exception_message, current_run_mode) ==
  /\ MessageContains(exception_message, "calling error")
  /\ current_run_mode = RUN_NONINTERACTIVE

_should_export_again_with_interactive_run_mode(exception_message, current_run_mode) ==
  /\ MessageContains(exception_message, "calling error")
  /\ current_run_mode \in {RUN_WITH_LAST_VALS, RUN_NONINTERACTIVE}

(* ------------------------------ names ---------------------------------- *)

\* A file name is the sequence of its period-separated parts:
\* <<"a", "xyz", "png">> is "a.xyz.png".

\* pygimplib.path.get_file_extension: the part after the last period, the
\* empty string when the name has no period.
get_file_extension(name) ==
  IF Len(name) < 2 THEN "" ELSE name[Len(name)]

\* pygimplib.path.get_filename_with_new_file_extension: the extension of the
\* name replaced by (or, when there is none, extended with) the new one.
get_filename_with_new_file_extension(name, file_extension) ==
  IF Len(name) < 2
    THEN name \o <<file_extension>>
    ELSE SubSeq(name, 1, Len(name) - 1) \o <<file_extension>>

\* pygimplib.path.FilenameValidator.validate on one part of a name: the
\* characters invalid in file names are removed.
ValidatePart(part) ==
  CASE part = "a?" -> "a"
    [] OTHER -> part

validate(name) == [i \in 1..Len(name) |-> ValidatePart(name[i])]

\* len(str_) - len('.' + file_extension): the place where " (n)" is inserted.
\* With an extension it is the end of the part before the extension; without one
\* it is one character before the end of the name (all parts that carry no
\* extension are one character long in this model).
InsertAtPosition(name, file_extension, substring) ==
  IF file_extension = ""
    THEN [name EXCEPT ![Len(name)] = substring \o @]
    ELSE [name EXCEPT ![Len(name) - 1] = @ \o substring]

UniqueSubstring(n) == " (" \o ToString(n) \o ")"

\* The name made unique against `taken` by inserting " (n)" with the smallest
\* n >= 1 that gives a name not in `taken`; the name itself if it is not taken.
Uniquified(name, file_extension, taken) ==
  IF name \notin taken
    THEN name
    ELSE LET n == CHOOSE k \in 1..(Cardinality(taken) + 1) :
                    /\ InsertAtPosition(name, file_extension, UniqueSubstring(k)) \notin taken
                    /\ \A j \in 1..(k - 1) :
                         InsertAtPosition(name, file_extension, UniqueSubstring(j)) \in taken
         IN InsertAtPosition(name, file_extension, UniqueSubstring(n))

(* ------------------------- file extension records ---------------------- *)

default_file_extension == "png"

\* pygimplib.fileformats.file_formats: the extensions of each known format.
FileFormats == { <<"png">>, <<"jpg", "jpeg", "jpe">> }

\* The key of the record shared by all extensions of one format: the key is
\* lower-cased, and an extension of no known format gets a record of its own.
ExtensionRecord(file_extension) ==
  LET key == Lower(file_extension)
  IN IF \E f \in FileFormats : \E i \in 1..Len(f) : f[i] = key
       THEN (CHOOSE f \in FileFormats : \E i \in 1..Len(f) : f[i] = key)[1]
       ELSE key

ExtensionRecords == {"", "png", "jpg", "xyz"}

\* _FileExtension.__init__
NewFileExtension == [is_valid |-> TRUE, processed_count |-> 0]

\* _FileExtensionProperties.__init__
NewFileExtensionProperties == [r \in ExtensionRecords |-> NewFileExtension]

\* Variant that falls back whatever the extension is.
FallBackAlways(file_extension) == file_extension \in {file_extension}

_should_export_again_with_default_file_extension(file_extension) ==
  file_extension # default_file_extension

\* Variant that never reuses the last values.
NeverReuseLastValues(initial_run_mode, file_extension, file_extension_properties) ==
  initial_run_mode

_get_run_mode(initial_run_mode, file_extension, file_extension_properties) ==
  LET file_extension_property == file_extension_properties[ExtensionRecord(file_extension)]
  IN IF file_extension_property.is_valid /\ file_extension_property.processed_count > 0
       THEN RUN_WITH_LAST_VALS
       ELSE initial_run_mode

(* --------------------------- configuration ----------------------------- *)

\* The arguments of Batcher.__init__ / Batcher.run (for LayerExporter.export:
\* process_contents, process_names and process_export are the processing
\* groups 'layer_contents', 'layer_name' and 'export').
\* The processing groups of LayerExporter that export() can be asked for.
ProcessingGroups == {"layer_contents", "layer_name", "export"}

\* LayerExporter._default_processing_groups
_default_processing_groups == {"layer_contents", "layer_name", "export"}

\* The argument processing_groups of LayerExporter.export: None or a list of
\* groups, of which only the members matter.
ProcessingGroupsArguments ==
  [is_none : {TRUE}, groups : {{}}] \cup [is_none : {FALSE}, groups : SUBSET ProcessingGroups]

NoProcessingGroups == [is_none |-> TRUE, groups |-> {}]

\* _enable_disable_processing_groups: the groups whose functions are left
\* in place; the functions of every other group are replaced by empty_func.
_enable_disable_processing_groups(processing_groups) ==
  LET asked == IF processing_groups.is_none
                 THEN _default_processing_groups
                 ELSE processing_groups.groups
  IN asked \cup (IF "layer_name" \in asked THEN {"_postprocess_layer_name"} ELSE {})

AllConfigs ==
  [ impl : {"Batcher", "LayerExporter"},
    initial_run_mode : RunModes,
    processing_groups : ProcessingGroupsArguments,
    process_contents : BOOLEAN,
    process_names : BOOLEAN,
    process_export : BOOLEAN,
    edit_mode : BOOLEAN,
    is_preview : BOOLEAN,
    keep_image_copy : BOOLEAN ]

\* Batcher takes the processing flags as they are given and has no
\* processing groups; LayerExporter has the parts of the export that
\* _enable_disable_processing_groups leaves in place.
IsConfig(c) ==
  IF c.impl = "Batcher"
    THEN c.processing_groups = NoProcessingGroups
    ELSE LET enabled == _enable_disable_processing_groups(c.processing_groups)
         IN /\ c.process_contents = ("layer_contents" \in enabled)
            /\ c.process_names = ("layer_name" \in enabled)
            /\ c.process_export = ("export" \in enabled)

\* The runs explored: every run mode and both implementations for exporting
\* runs (the normal export of LayerExporter asked for with None), every
\* combination of the processing flags of Batcher for one run mode.
Configs ==
  { c \in AllConfigs :
      /\ IsConfig(c)
      /\ \/ /\ c.process_contents /\ c.process_export
            /\ ~c.edit_mode /\ ~c.is_preview /\ ~c.keep_image_copy
            /\ c.process_names => c.processing_groups.is_none
         \/ /\ c.impl = "Batcher"
            /\ c.initial_run_mode = RUN_NONINTERACTIVE
            /\ c.process_names
            /\ (c.is_preview => c.edit_mode) }

\* The layers of the input image, in tree order: "a", "a.xyz", "a", ...
ItemName(i) == IF i % 2 = 1 THEN <<"a">> ELSE <<"a", "xyz">>

\* `item.parents` of a layer at the top of the tree.
NoParents == ""

\* The item tree of an image whose i-th layer is in the folder parents[i]
\* (folders have names that are valid and differ from each other).
ItemTreeWith(parents) ==
  [i \in 1..NumItems |->
     [orig_name |-> ItemName(i), name |-> ItemName(i), parents |-> parents[i]]]

\* The item tree of an image without layer groups.
ItemTree == ItemTreeWith([i \in 1..NumItems |-> NoParents])

\* The file extensions a procedure may set as current_file_extension.
ProcedureFileExtensions == {default_file_extension, "xyz"}

NoError == [type |-> "none", message |-> <<>>, name |-> <<>>, file_extension |-> ""]

Error(type, message, name, file_extension) ==
  [type |-> type, message |-> message, name |-> name, file_extension |-> file_extension]

NoEffects ==
  [ context_push |-> 0, context_pop |-> 0,
    undo_freeze |-> 0, undo_thaw |-> 0,
    undo_group_start |-> 0, undo_group_end |-> 0,
    image_copy_created |-> 0, image_copy_deleted |-> 0,
    cleanup_contents |-> 0, cleanup_calls |-> 0 ]

(* ------------------------------- state --------------------------------- *)

VARIABLES
  cfg,                        \* the configuration of the run
  pc,                         \* where the run is
  idx,                        \* index of the item being processed (or next)
  items,                      \* the item tree: orig_name and working name
  should_stop,                \* Batcher._should_stop
  file_extension_properties,  \* _FileExtensionProperties of the run
  current_file_extension,     \* exporter.current_file_extension
  current_overwrite_mode,     \* exporter.current_overwrite_mode
  export_status,              \* status of the last export attempt
  files,                      \* files known to exist in the output directory
  uniquified,                 \* <<parents, name>> the ItemUniquifier has given out
  attempt,                    \* which _export_item call, and whether forced
  output_filepath,            \* output path of the _export_item call
  calls,                      \* export procedure calls made for this item
  decisions,                  \* overwrite modes obtained for this item
  dirs,                       \* make_dirs calls completed for this item
  returned,                   \* statuses the _export_item calls returned
  exc,                        \* exception raised by item processing
  eff,                        \* host calls made by setup and cleanup
  result,                     \* how run() ended
  procedures,                 \* the configured procedures (action settings)
  constraints,                \* the configured constraints (action settings)
  invoker,                    \* the actions installed in each group
  invoked,                    \* the calls of Invoker.invoke made by the run
  filter,                     \* the rules of the filter of the item tree
  subfilters,                 \* the rules of each subfilter of that filter
  overwrite_mode,             \* Batcher._overwrite_mode
  overwrite_chooser,          \* Batcher._overwrite_chooser
  exported_layers,            \* LayerExporter._exported_layers
  initial_invoker,            \* Batcher._initial_invoker: actions of each group
  renamed_new,                \* the files the run has written under a new name
  sources,                    \* update(): what each setting source holds
  plugin_version,             \* update(): value of settings['main/plugin_version']
  update_call,                \* update(): the last call and the status it returned
  temp_rules,                 \* the rules added or removed for a block that is open
  item_tree,                  \* Batcher._item_tree / LayerExporter._layer_tree: which tree
  trees_built,                \* the number of item trees the runs have built
  progress,                   \* the progress updater: total and finished tasks
  file_format_options,        \* the options stored for each file format
  options_call                \* the last request for options and what it returned

vars ==
  << cfg, pc, idx, items, should_stop, file_extension_properties,
     current_file_extension, current_overwrite_mode, export_status, files,
     uniquified, attempt, output_filepath, calls, decisions, dirs, returned,
     exc, eff, result, procedures, constraints, invoker, invoked, filter,
     subfilters,
     overwrite_mode, overwrite_chooser, exported_layers, initial_invoker,
     renamed_new, sources, plugin_version, update_call, temp_rules,
     item_tree, trees_built, progress, file_format_options, options_call >>

\* The attributes _init_attributes sets (those the keyword arguments of run()
\* name, and the list of the layers exported) and the invoker add_procedure()
\* adds to; the files written under a new name (overwrite mode RENAME_NEW).
attrVars ==
  << overwrite_mode, overwrite_chooser, exported_layers, initial_invoker, renamed_new,
     sources, plugin_version, update_call, temp_rules,
     item_tree, trees_built, progress, file_format_options, options_call >>

\* What no step of the processing of the items changes: the setting sources
\* and the plug-in version update() works on, and the rules the filter holds
\* or lacks for the time of a `with` block of _preprocess_layers, and the
\* options of the file formats.
otherVars ==
  << sources, plugin_version, update_call, temp_rules, file_format_options, options_call >>

\* The item tree of the Batcher and the count of the trees built.
treeVars == << item_tree, trees_built >>

\* The configured actions, the invoker built from them and what it did.
actionVars == << procedures, constraints, invoker, invoked, filter, subfilters >>

engineVars ==
  << file_extension_properties, current_file_extension, current_overwrite_mode,
     export_status, files, uniquified >>

\* What is local to the processing of one item: the position in the export
\* procedure and the record of what was done for the item.
itemVars == << attempt, output_filepath, calls, decisions, dirs, returned >>

ItemVarsReset ==
  /\ attempt' = [round |-> 1, forced |-> FALSE]
  /\ output_filepath' = <<>>
  /\ calls' = <<>>
  /\ decisions' = <<>>
  /\ dirs' = 0
  /\ returned' = <<>>

\* An overwrite chooser that asks the user.
InteractiveOverwriteChooser == [interactive |-> TRUE, overwrite_mode |-> "None"]

\* pygimplib.overwrite.NoninteractiveOverwriteChooser(overwrite_mode): it
\* answers with the mode it was made with.
NoninteractiveOverwriteChooser(mode) == [interactive |-> FALSE, overwrite_mode |-> mode]

\* OverwriteChooser.choose(): what the chooser may answer.
Choose(chooser) ==
  IF chooser.interactive THEN ChooserModes ELSE {chooser.overwrite_mode}

\* `overwrite_chooser=None`
NoOverwriteChooser == [interactive |-> FALSE, overwrite_mode |-> "None"]

\* _init_attributes, the overwrite chooser, after the keyword arguments were
\* set: `if self._overwrite_chooser is None:` one is made that answers with
\* the overwrite mode.
_init_attributes(mode, chooser) ==
  IF chooser = NoOverwriteChooser THEN NoninteractiveOverwriteChooser(mode) ELSE chooser

DEFAULT_PROCEDURES_GROUP == "default_procedures"

DEFAULT_CONSTRAINTS_GROUP == "default_constraints"

_NAME_ONLY_ACTION_GROUP == "name"

NAME_ONLY_TAG == "name"

\* The groups of add_procedure() that run() invokes around the items.
HookGroups ==
  { "before_process_items", "before_process_items_contents",
    "before_process_item", "before_process_item_contents",
    "after_process_item_contents", "after_process_item",
    "after_process_items_contents", "after_process_items",
    "cleanup_contents" }

Groups ==
  HookGroups \cup
    {DEFAULT_PROCEDURES_GROUP, DEFAULT_CONSTRAINTS_GROUP, _NAME_ONLY_ACTION_GROUP}

\* An action as an invoker holds it: a function, and for an action made from
\* a setting the kind and the position of the setting.
Added(function) == [function |-> function, kind |-> "function", index |-> 0]

\* Invoker.add(function, [group]): the action is put last in the group, which
\* the invoker knows from then on.
InvokerAdd(invkr, function, group) ==
  [g \in DOMAIN invkr \cup {group} |->
     IF g = group
       THEN (IF g \in DOMAIN invkr THEN invkr[g] ELSE << >>) \o << Added(function) >>
       ELSE invkr[g]]

\* Invoker.list_groups(include_empty_groups=True)
list_groups(invkr) == DOMAIN invkr

\* `pg.invoker.Invoker()`
NewInvoker == [g \in {} |-> << >>]

\* The initial invoker after add_procedure() was called once for each of its
\* groups and for the default procedures group.
ProcedureInEveryGroup ==
  [g \in HookGroups \cup {DEFAULT_PROCEDURES_GROUP} |-> << Added("add_procedure") >>]

\* The entry `self._invoker.add(self._initial_invoker, groups)` makes in a
\* group: the initial invoker itself, not a copy of its actions.
InitialInvokerEntry(group) == [function |-> group, kind |-> "invoker", index |-> 0]

\* Variant that leaves the initial invoker out of the invoker of the run.
NotRegistered(group) == << >>

\* `self._invoker.add(self._initial_invoker,
\*    self._initial_invoker.list_groups(include_empty_groups=True))`: what it
\* adds to a group.
AddInitialInvoker(group) ==
  IF group \in list_groups(initial_invoker)
    THEN << InitialInvokerEntry(group) >>
    ELSE << >>

\* The default of the argument overwrite_mode of Batcher.__init__.
\* pg.config.PLUGIN_VERSION, the default value of 'main/plugin_version': a
\* version is the sequence of its numbers.
PLUGIN_VERSION == << 1, 0 >>

\* A setting source without data: `source.has_data()` is false and loading
\* from it gives the status SOURCE_NOT_FOUND.
SourceMissing == [has_data |-> FALSE, readable |-> FALSE, version |-> << >>]

\* The names of the setting sources, in the order they are loaded from.
SourceNames == << "session", "persistent" >>

\* update() has not been called.
NoUpdateCall == [handle_invalid |-> "none", response |-> "none", status |-> "none"]

\* Batcher.__init__(item_tree=None): no item tree yet.
NoItemTree == [by |-> "None", n |-> 0]

\* The n-th item tree the caller has made, the n-th item tree a run has built.
CallerTree(n) == [by |-> "caller", n |-> n]
BuiltTree(n) == [by |-> "run", n |-> n]

\* pygimplib.progress.ProgressUpdater(None)
NewProgressUpdater == [num_total_tasks |-> 0, num_finished_tasks |-> 0]

\* No options are stored for any file format; no request was made.
NoOptions == [f \in {} |-> << >>]
NoKwargs == [names |-> << >>, values |-> "none"]
NoOptionsCall ==
  [file_format |-> "none", import_or_export |-> "none",
   returned |-> "none", kwargs |-> NoKwargs]

\* The plug-in at start, no setting stored: the setting holds its default
\* value; no `with` block is open.
InitOther ==
  /\ sources = [n \in 1..Len(SourceNames) |-> SourceMissing]
  /\ plugin_version = PLUGIN_VERSION
  /\ update_call = NoUpdateCall
  /\ temp_rules = << >>
  /\ item_tree = NoItemTree
  /\ trees_built = 0
  /\ progress = NewProgressUpdater
  /\ file_format_options = NoOptions
  /\ options_call = NoOptionsCall

DefaultOverwriteMode == "SKIP"

\* A Batcher or LayerExporter made with a chooser that asks the user.
InitAttributes ==
  /\ overwrite_mode = DefaultOverwriteMode
  /\ overwrite_chooser = _init_attributes(overwrite_mode, InteractiveOverwriteChooser)
  /\ exported_layers = << >>
  /\ renamed_new = {}
  /\ InitOther
  /\ initial_invoker = ProcedureInEveryGroup

\* A filter without subfilters.
NoSubfilters == [n \in {} |-> << >>]

\* The state of a Batcher or LayerExporter before run() is called, but for
\* the item tree.
InitEngine ==
  /\ pc = "idle"
  /\ idx = 0
  /\ should_stop = FALSE
  /\ file_extension_properties = NewFileExtensionProperties
  /\ current_file_extension = default_file_extension
  /\ current_overwrite_mode = "None"
  /\ export_status = NOT_EXPORTED_YET
  /\ files = {}
  /\ uniquified = {}
  /\ attempt = [round |-> 1, forced |-> FALSE]
  /\ output_filepath = <<>>
  /\ calls = <<>>
  /\ decisions = <<>>
  /\ dirs = 0
  /\ returned = <<>>
  /\ exc = NoError
  /\ eff = NoEffects
  /\ result = [state |-> "none", exc |-> NoError, image_copy |-> FALSE]
  /\ invoker = << >>
  /\ invoked = << >>
  /\ filter = << >>
  /\ subfilters = NoSubfilters

\* The state before run() is called on an image without layer groups.
InitRun ==
  /\ items = ItemTree
  /\ InitEngine

Init ==
  /\ cfg \in Configs
  /\ procedures = << >>
  /\ constraints = << >>
  /\ InitAttributes
  /\ InitRun

(* ------------------------- Batcher.run: control ------------------------ *)

\* `not self._edit_mode or self._is_preview`; LayerExporter always works on
\* a copy of the image.
UsesImageCopy ==
  cfg.impl = "LayerExporter" \/ ~cfg.edit_mode \/ cfg.is_preview

Returned(image_copy) ==
  [state |-> "returned", exc |-> NoError, image_copy |-> image_copy]

Raised(e) == [state |-> "raised", exc |-> e, image_copy |-> FALSE]

\* Variant without the `finally` clause: the exception leaves run() at once.
RaiseWithoutCleanup(e) ==
  /\ exc' = e
  /\ pc' = "done"
  /\ result' = Raised(e)

\* An exception leaves _process_items(): `except Exception` notes it and the
\* `finally` clause runs _cleanup_contents() if process_contents is set.
RaiseFrom(e) ==
  /\ exc' = e
  /\ IF cfg.process_contents
       THEN pc' = "cleanup" /\ result' = result
       ELSE pc' = "done" /\ result' = Raised(e)

\* _process_items() returns.
ReturnFromProcessItems ==
  /\ exc' = exc
  /\ IF cfg.process_contents
       THEN pc' = "cleanup" /\ result' = result
       ELSE pc' = "done" /\ result' = Returned(FALSE)

ProcedureError == Error("Exception", <<"failed">>, <<>>, "")

\* `raise exceptions.SkipAction(skip_message)` in a procedure.
SkipAction == Error("SkipAction", <<"skipped">>, <<>>, "")

\* Batcher.run(**kwargs) up to the call of _setup_contents: _init_attributes,
\* which sets the attributes the keyword arguments name (here overwrite_mode)
\* and makes an overwrite chooser if there is none, and
\* _prepare_for_processing (LayerExporter.export: _init_attributes and
\* _preprocess_layers).
\* The item tree a run works on.  Batcher: _init_attributes stores the
\* keyword argument item_tree, if given, in the attribute, and
\* _prepare_for_processing builds a tree if the attribute is None.
\* LayerExporter: _init_attributes builds a tree if the parameter layer_tree
\* is None.
ItemTreeOfRun(impl, kwargs, attribute, built) ==
  LET given == IF "item_tree" \in DOMAIN kwargs THEN kwargs.item_tree
               ELSE IF impl = "Batcher" THEN attribute ELSE NoItemTree
  IN IF given # NoItemTree THEN given ELSE BuiltTree(built + 1)

\* pygimplib.itemtree.LayerTree(image): the layers of the image under the
\* names they have in the image.
LayerTree(tree) == [i \in DOMAIN tree |-> [tree[i] EXCEPT !.name = tree[i].orig_name]]

\* What the run does about the item tree: the tree it works on, the count
\* of the trees built, and the items of the tree.
PrepareItemTree(kwargs) ==
  LET tree == ItemTreeOfRun(cfg.impl, kwargs, item_tree, trees_built)
  IN /\ item_tree' = tree
     /\ trees_built' = IF tree = BuiltTree(trees_built + 1)
                         THEN trees_built + 1 ELSE trees_built
     /\ items' = IF tree = BuiltTree(trees_built + 1) THEN LayerTree(items) ELSE items

\* Variant that takes every layer of the image for a task.
TotalOfAllLayers(total) == [num_total_tasks |-> NumItems, num_finished_tasks |-> 0]

\* ProgressUpdater.reset() and num_total_tasks = len(item tree)
ResetProgress(total) == [num_total_tasks |-> total, num_finished_tasks |-> 0]

\* ProgressUpdater.update_tasks()
update_tasks(updater) == [updater EXCEPT !.num_finished_tasks = @ + 1]

RunWith(kwargs) ==
  /\ pc = "idle"
  /\ PrepareItemTree(kwargs)
  /\ progress' = ResetProgress(NumItems)
  /\ overwrite_mode' = kwargs.overwrite_mode
  /\ overwrite_chooser' = _init_attributes(kwargs.overwrite_mode, overwrite_chooser)
  /\ exported_layers' = << >>
  /\ renamed_new' = {}
  /\ should_stop' = FALSE
  /\ idx' = 1
  /\ file_extension_properties' = NewFileExtensionProperties
  /\ current_file_extension' = default_file_extension
  /\ current_overwrite_mode' = "None"
  /\ export_status' = NOT_EXPORTED_YET
  /\ uniquified' = {}
  /\ pc' = IF cfg.process_contents
             THEN "setup"
             ELSE IF cfg.impl = "Batcher" THEN "before_items" ELSE "loop"
  /\ UNCHANGED << initial_invoker, otherVars, actionVars, cfg, files,
                  itemVars, exc, eff, result >>

\* run() without keyword arguments.
Run == RunWith([overwrite_mode |-> overwrite_mode])

\* Batcher._setup_contents / LayerExporter._setup, called before the `try`.
\* The host may fail to create the image copy: the exception then leaves
\* run() with the context already pushed.
SetupContents ==
  /\ pc = "setup"
  /\ \E ok \in (IF UsesImageCopy THEN BOOLEAN ELSE {TRUE}) :
       IF ok
         THEN /\ eff' = IF UsesImageCopy
                          THEN [eff EXCEPT !.context_push = @ + 1,
                                           !.image_copy_created = @ + 1,
                                           !.undo_freeze = @ + 1]
                          ELSE [eff EXCEPT !.context_push = @ + 1,
                                           !.undo_group_start = @ + 1]
              /\ pc' = IF cfg.impl = "Batcher" THEN "before_items" ELSE "loop"
              /\ result' = result
         ELSE /\ eff' = [eff EXCEPT !.context_push = @ + 1]
              /\ pc' = "done"
              /\ result' = Raised(Error("RuntimeError", <<"failed">>, <<>>, ""))
  /\ UNCHANGED << attrVars, actionVars, cfg, idx, items, should_stop,
                  engineVars, itemVars, exc >>

\* Batcher._process_items before the loop: the 'before_process_items' and
\* 'before_process_items_contents' groups; an action of a group may raise.
BeforeProcessItems ==
  /\ pc = "before_items"
  /\ \E raises \in BOOLEAN :
       IF raises
         THEN RaiseFrom(ProcedureError)
         ELSE pc' = "loop" /\ UNCHANGED << exc, result >>
  /\ UNCHANGED << attrVars, actionVars, cfg, idx, items, should_stop,
                  engineVars, itemVars, eff >>

\* The head of the loop over the item tree: `for item in self._item_tree:`
\* followed by the check of _should_stop.
\* Variant that looks at _should_stop before it looks for the next item.
NextItemUnlessStopped ==
  /\ pc = "loop"
  /\ IF should_stop
       THEN RaiseFrom(Error("CancelError", <<"stopped by user">>, <<>>, ""))
       ELSE IF idx > NumItems
         THEN /\ IF cfg.impl = "Batcher"
                   THEN pc' = "after_items" /\ UNCHANGED << exc, result >>
                   ELSE ReturnFromProcessItems
         ELSE pc' = "process_item" /\ UNCHANGED << exc, result >>
  /\ UNCHANGED << attrVars, actionVars, cfg, idx, items, should_stop,
                  engineVars, itemVars, eff >>

NextItem ==
  /\ pc = "loop"
  /\ IF idx > NumItems
       THEN /\ IF cfg.impl = "Batcher"
                 THEN pc' = "after_items" /\ UNCHANGED << exc, result >>
                 ELSE ReturnFromProcessItems
       ELSE IF should_stop
         THEN RaiseFrom(Error("CancelError", <<"stopped by user">>, <<>>, ""))
         ELSE pc' = "process_item" /\ UNCHANGED << exc, result >>
  /\ UNCHANGED << attrVars, actionVars, cfg, idx, items, should_stop,
                  engineVars, itemVars, eff >>

\* Batcher._process_item up to the export procedure: the name-only actions
\* (previews), the copy of the layer, the 'before_process_item*' groups and
\* the procedures of the default group that precede the export procedure.
\* LayerExporter._process_and_export_item up to _export_layer: there a
\* procedure may set current_file_extension.  A procedure may raise, an
\* error or SkipAction; no `except` clause stands between the procedure and
\* run().
ProcessItem ==
  /\ pc = "process_item"
  /\ \E raises \in BOOLEAN, file_extension \in ProcedureFileExtensions,
        e \in {ProcedureError, SkipAction} :
       /\ (cfg.impl = "Batcher" => file_extension = default_file_extension)
       /\ (raises => cfg.process_contents \/ (cfg.is_preview /\ cfg.process_names))
       /\ (e = SkipAction => raises /\ cfg.impl = "Batcher")
       /\ IF raises
            THEN /\ RaiseFrom(e)
                 /\ UNCHANGED << idx, current_file_extension >>
            ELSE /\ UNCHANGED << exc, result >>
                 /\ IF cfg.impl = "Batcher"
                      THEN /\ current_file_extension' = current_file_extension
                           /\ IF ~cfg.process_contents
                                THEN pc' = "loop" /\ idx' = idx + 1
                                ELSE /\ idx' = idx
                                     /\ pc' = IF cfg.edit_mode THEN "after_item" ELSE "export"
                      ELSE /\ current_file_extension' =
                                IF cfg.process_contents THEN file_extension
                                ELSE IF cfg.process_names THEN default_file_extension
                                ELSE current_file_extension
                           /\ idx' = idx
                           /\ pc' = "export"
  /\ UNCHANGED << attrVars, actionVars, cfg, items, should_stop,
                  file_extension_properties,
                  current_overwrite_mode, export_status, files, uniquified,
                  itemVars, eff >>

(* ---------------------------- export engine --------------------------- *)

\* ItemUniquifier: the names given out to the items with these parents.
UniquifiedIn(parents) == { u[2] : u \in { v \in uniquified : v[1] = parents } }

\* The name _process_item_name / LayerExporter._process_layer_name gives the
\* item: the file extension appended or replaced, the name validated and
\* made unique among the names given out so far.
ProcessedItemName(name, file_extension, force_default_file_extension) ==
  LET renamed ==
        IF ~force_default_file_extension
          THEN IF file_extension = default_file_extension
                 THEN name \o <<default_file_extension>>
                 ELSE get_filename_with_new_file_extension(name, file_extension)
          ELSE get_filename_with_new_file_extension(name, default_file_extension)
      valid == validate(renamed)
  IN Uniquified(valid, get_file_extension(valid), UniquifiedIn(items[idx].parents))

\* Variant that counts every item under the default extension.
IncrementDefaultCount(properties, file_extension) ==
  [properties EXCEPT ![ExtensionRecord(default_file_extension)].processed_count = @ + 1]

IncrementProcessedCount(properties, file_extension) ==
  [properties EXCEPT ![ExtensionRecord(file_extension)].processed_count = @ + 1]

\* Variant that leaves the record of the extension valid.
KeptValid(properties, file_extension) == properties

MarkInvalid(properties, file_extension) ==
  [properties EXCEPT ![ExtensionRecord(file_extension)].is_valid = FALSE]

\* The start of the export procedure for the current item (export(), lines
\* 25-35; LayerExporter._export_layer, first line): the name of the item is
\* processed if names are processed.
BeginExport ==
  /\ pc = "export"
  /\ LET cfe == IF cfg.impl = "Batcher" THEN default_file_extension
                ELSE current_file_extension
         name == IF cfg.process_names
                   THEN ProcessedItemName(items[idx].name, cfe, FALSE)
                   ELSE items[idx].name
     IN /\ current_file_extension' = cfe
        /\ items' = [items EXCEPT ![idx].name = name]
        /\ uniquified' = IF cfg.process_names
                            THEN uniquified \cup {<< items[idx].parents, name >>}
                            ELSE uniquified
  /\ pc' = IF cfg.process_export THEN "export_item" ELSE "after_item"
  /\ UNCHANGED << attrVars, actionVars, cfg, idx, should_stop,
                  file_extension_properties,
                  current_overwrite_mode, export_status, files, itemVars,
                  exc, eff, result >>

\* What the caller of _export_item does with the status it returns (export(),
\* lines 38-46; LayerExporter._export_layer, lines 580-582): a second call
\* after USE_DEFAULT_FILE_EXTENSION, with the item renamed if names are
\* processed; otherwise the export procedure is finished for the item.
ReturnFromExportItem(status, properties, mode) ==
  /\ returned' = Append(returned, status)
  /\ IF attempt.round = 1 /\ status = USE_DEFAULT_FILE_EXTENSION
       THEN LET name == IF cfg.process_names
                          THEN ProcessedItemName(items[idx].name, current_file_extension, TRUE)
                          ELSE items[idx].name
            IN /\ items' = [items EXCEPT ![idx].name = name]
               /\ uniquified' = IF cfg.process_names
                                  THEN uniquified \cup {<< items[idx].parents, name >>}
                                  ELSE uniquified
               /\ file_extension_properties' = properties
               /\ attempt' = [round |-> 2, forced |-> FALSE]
               /\ pc' = "export_item"
       ELSE /\ file_extension_properties' =
                 IF cfg.impl = "Batcher" /\ mode # "SKIP"
                   THEN IncrementProcessedCount(
                          properties, get_file_extension(items[idx].name))
                   ELSE properties
            /\ pc' = "after_item"
            /\ UNCHANGED << items, uniquified, attempt >>

\* Variant that leaves out the folders of the item.
FilepathWithoutFolders(item) == item.name

\* _get_item_filepath: the path of the file of an item in the output
\* directory, the folders of the item before its name.
_get_item_filepath(item) ==
  IF item.parents = NoParents
    THEN item.name
    ELSE [item.name EXCEPT ![1] = item.parents \o "/" \o @]

\* Variant that reports the name of the layer in the image.
MakeDirsErrorOfRawItem(item) ==
  Error("InvalidOutputDirectoryError", <<"failed">>, item.orig_name, default_file_extension)

\* _make_dirs when make_dirs raises OSError: the error carries the name of
\* the current item and the default file extension.
MakeDirsError(item) ==
  Error("InvalidOutputDirectoryError", <<"failed">>, item.name, default_file_extension)

\* Variant that keeps the path made of the name of the item.
RequestedFilepath(mode, path, unique) == path

\* The output path _export_item takes from handle_overwrite: the path made
\* unique if the mode is RENAME_NEW, the path it passed otherwise.
ReturnedFilepath(mode, path, unique) ==
  IF mode = "RENAME_NEW" THEN unique ELSE path

\* _export_item up to the first call of the export procedure:
\* handle_overwrite (the environment says whether the file exists and what the
\* chooser answers) and _make_dirs (the environment says whether it fails;
\* make_dirs tolerates a directory that exists, so it does not fail for the
\* directory an earlier _export_item call has created for the same item).
ExportItem ==
  /\ pc = "export_item"
  /\ LET path == _get_item_filepath(items[idx])
         file_extension == get_file_extension(items[idx].name)
     IN \E exists \in (IF path \in files THEN {TRUE} ELSE BOOLEAN) :
        \E mode \in (IF exists THEN Choose(overwrite_chooser) ELSE {"DO_NOTHING"}) :
        \E dirs_ok \in (IF mode \in {"SKIP", "CANCEL"} \/ dirs > 0 THEN {TRUE} ELSE BOOLEAN) :
          LET known == IF exists THEN files \cup {path} ELSE files
              unique == Uniquified(path, file_extension, known)
              status == IF cfg.impl = "Batcher" THEN NOT_EXPORTED_YET ELSE export_status
          IN /\ current_overwrite_mode' = mode
             /\ decisions' = Append(decisions, mode)
             /\ files' = IF mode = "RENAME_EXISTING"
                           THEN (known \ {path}) \cup {unique}
                           ELSE known
             /\ export_status' = status
             /\ CASE mode = "CANCEL" ->
                       /\ RaiseFrom(Error("ExportCancelError", <<"cancelled">>, <<>>, ""))
                       /\ UNCHANGED << items, uniquified, attempt, output_filepath,
                                       file_extension_properties, dirs, returned >>
                  [] mode = "SKIP" ->
                       /\ ReturnFromExportItem(status, file_extension_properties, mode)
                       /\ UNCHANGED << output_filepath, dirs, exc, result >>
                  [] OTHER ->
                       IF dirs_ok
                         THEN /\ dirs' = dirs + 1
                              /\ output_filepath' = ReturnedFilepath(mode, path, unique)
                              /\ attempt' = [attempt EXCEPT !.forced = FALSE]
                              /\ pc' = "export_once"
                              /\ UNCHANGED << items, uniquified, returned, exc, result,
                                              file_extension_properties >>
                         ELSE /\ RaiseFrom(MakeDirsError(items[idx]))
                              /\ UNCHANGED << items, uniquified, attempt, output_filepath,
                                              file_extension_properties, dirs, returned >>
  /\ UNCHANGED << attrVars, actionVars, cfg, idx, should_stop,
                  current_file_extension, calls, eff >>

\* One call of the export procedure (_export_item_once through its wrapper)
\* and what _export_item does with the status: a second call with
\* RUN_INTERACTIVE after FORCE_INTERACTIVE, a return otherwise.  The
\* environment chooses the outcome: <<>> is success, anything else the message
\* of the RuntimeError raised.
ExportOnce ==
  /\ pc = "export_once"
  /\ LET file_extension == get_file_extension(items[idx].name)
         run_mode == IF attempt.forced
                       THEN RUN_INTERACTIVE
                       ELSE _get_run_mode(cfg.initial_run_mode, file_extension,
                                          file_extension_properties)
     IN \E outcome \in {<<>>} \cup FailureMessages :
          /\ calls' = Append(calls, [round |-> attempt.round,
                                     run_mode |-> run_mode,
                                     output_filepath |-> output_filepath,
                                     file_extension |-> file_extension,
                                     outcome |-> outcome])
          /\ IF outcome = <<>>
               THEN /\ export_status' = EXPORT_SUCCESSFUL
                    /\ files' = files \cup {output_filepath}
                    /\ ReturnFromExportItem(EXPORT_SUCCESSFUL, file_extension_properties,
                                            current_overwrite_mode)
                    /\ UNCHANGED << exc, result >>
               ELSE IF _was_export_canceled_by_user(outcome)
                 THEN /\ RaiseFrom(Error("ExportCancelError", outcome, <<>>, ""))
                      /\ export_status' = NOT_EXPORTED_YET
                      /\ UNCHANGED << items, uniquified, attempt, files,
                                      file_extension_properties, returned >>
               ELSE IF _should_export_again_with_interactive_run_mode(outcome, run_mode)
                 THEN /\ export_status' = FORCE_INTERACTIVE
                      /\ IF ~attempt.forced
                           THEN /\ attempt' = [attempt EXCEPT !.forced = TRUE]
                                /\ pc' = "export_once"
                                /\ UNCHANGED << items, uniquified, returned,
                                                file_extension_properties >>
                           ELSE ReturnFromExportItem(FORCE_INTERACTIVE,
                                                     file_extension_properties,
                                                     current_overwrite_mode)
                      /\ UNCHANGED << files, exc, result >>
               ELSE IF _should_export_again_with_default_file_extension(file_extension)
                 THEN /\ export_status' = USE_DEFAULT_FILE_EXTENSION
                      /\ ReturnFromExportItem(
                           USE_DEFAULT_FILE_EXTENSION,
                           MarkInvalid(file_extension_properties, file_extension),
                           current_overwrite_mode)
                      /\ UNCHANGED << files, exc, result >>
               ELSE /\ RaiseFrom(Error("ExportError", outcome, items[idx].orig_name,
                                       default_file_extension))
                    /\ export_status' = NOT_EXPORTED_YET
                    /\ UNCHANGED << items, uniquified, attempt, files,
                                    file_extension_properties, returned >>
  /\ UNCHANGED << attrVars, actionVars, cfg, idx, should_stop, current_file_extension,
                  current_overwrite_mode, output_filepath, decisions, dirs, eff >>

(* ------------------------ after the item, cleanup ---------------------- *)

\* The rest of the processing of one item.  Batcher: the
\* 'after_process_item_contents' and 'after_process_item' groups (an action may
\* raise), _refresh_current_image and update_tasks.  LayerExporter: the end of
\* _process_and_export_item, where the layer is appended to the exported
\* layers and processed_count is incremented.
AfterProcessItem ==
  /\ pc = "after_item"
  /\ renamed_new' =
       IF /\ calls # << >>
          /\ calls[Len(calls)].outcome = << >>
          /\ current_overwrite_mode = "RENAME_NEW"
         THEN renamed_new \cup {calls[Len(calls)].output_filepath}
         ELSE renamed_new
  /\ \E raises \in (IF cfg.impl = "Batcher" THEN BOOLEAN ELSE {FALSE}) :
       IF raises
         THEN /\ RaiseFrom(ProcedureError)
              /\ UNCHANGED << idx, file_extension_properties, itemVars, exported_layers,
                              progress >>
         ELSE /\ pc' = "loop"
              /\ idx' = idx + 1
              /\ progress' = update_tasks(progress)
              /\ ItemVarsReset
              /\ exported_layers' =
                   IF cfg.impl = "LayerExporter" /\ current_overwrite_mode # "SKIP"
                     THEN Append(exported_layers, idx)
                     ELSE exported_layers
              /\ file_extension_properties' =
                   IF cfg.impl = "LayerExporter" /\ current_overwrite_mode # "SKIP"
                     THEN IncrementProcessedCount(
                            file_extension_properties, get_file_extension(items[idx].name))
                     ELSE file_extension_properties
              /\ UNCHANGED << exc, result >>
  /\ UNCHANGED << overwrite_mode, overwrite_chooser, initial_invoker, otherVars, treeVars,
                  actionVars, cfg, items, should_stop, current_file_extension, current_overwrite_mode,
                  export_status, files, uniquified, eff >>

\* Batcher._process_items after the loop: the 'after_process_items_contents'
\* and 'after_process_items' groups.
AfterProcessItems ==
  /\ pc = "after_items"
  /\ \E raises \in BOOLEAN :
       IF raises THEN RaiseFrom(ProcedureError) ELSE ReturnFromProcessItems
  /\ UNCHANGED << attrVars, actionVars, cfg, idx, items, should_stop,
                  engineVars, itemVars, eff >>

\* The `finally` clause of run(): Batcher._cleanup_contents (an action of the
\* 'cleanup_contents' group may raise, which ends the cleanup there) or
\* LayerExporter._cleanup, and the end of run(): the pending exception is
\* raised again, or the image copy or None is returned.
CleanupContents ==
  /\ pc = "cleanup"
  /\ \E hook_raises \in (IF cfg.impl = "Batcher" THEN BOOLEAN ELSE {FALSE}) :
       LET exception_occurred == exc.type # "none"
           hooks == IF cfg.impl = "Batcher" THEN 1 ELSE 0
           deleted == IF ~cfg.keep_image_copy \/ exception_occurred THEN 1 ELSE 0
       IN IF hook_raises
            THEN /\ eff' = [eff EXCEPT !.cleanup_calls = @ + 1,
                                       !.cleanup_contents = @ + hooks]
                 /\ result' = Raised(Error("CleanupError", <<"failed">>, <<>>, ""))
            ELSE /\ eff' = IF UsesImageCopy
                             THEN [eff EXCEPT !.cleanup_calls = @ + 1,
                                              !.cleanup_contents = @ + hooks,
                                              !.undo_thaw = @ + 1,
                                              !.image_copy_deleted = @ + deleted,
                                              !.context_pop = @ + 1]
                             ELSE [eff EXCEPT !.cleanup_calls = @ + 1,
                                              !.cleanup_contents = @ + hooks,
                                              !.undo_group_end = @ + 1,
                                              !.context_pop = @ + 1]
                 /\ result' = IF exception_occurred
                                THEN Raised(exc)
                                ELSE Returned(cfg.keep_image_copy /\ UsesImageCopy)
  /\ pc' = "done"
  /\ ItemVarsReset
  /\ UNCHANGED << attrVars, actionVars, cfg, idx, items, should_stop, engineVars, exc >>

\* Batcher.stop / LayerExporter.stop, called from a callback at any time.
Stop ==
  /\ pc # "done"
  /\ ~should_stop
  /\ should_stop' = TRUE
  /\ UNCHANGED << attrVars, actionVars, cfg, pc, idx, items, engineVars, itemVars,
                  exc, eff, result >>

Next ==
  \/ Run
  \/ SetupContents
  \/ BeforeProcessItems
  \/ NextItem
  \/ ProcessItem
  \/ BeginExport
  \/ ExportItem
  \/ ExportOnce
  \/ AfterProcessItem
  \/ AfterProcessItems
  \/ CleanupContents
  \/ Stop

Spec == Init /\ [][Next]_vars

(* ------------------- runs on an image with layer groups ---------------- *)

\* The folders a layer may be in: none, or the one layer group of the image.
Folders == {NoParents, "f"}

\* Runs that process names and export, on every image with at most one layer
\* in the layer group and the others at the top of the tree.
InitNames ==
  /\ cfg \in { c \in Configs : /\ c.process_names /\ c.process_export
                               /\ c.process_contents
                               /\ ~c.edit_mode /\ ~c.is_preview
                               /\ c.initial_run_mode = RUN_NONINTERACTIVE }
  /\ procedures = << >>
  /\ constraints = << >>
  /\ items \in { ItemTreeWith(parents) :
                    parents \in { p \in [1..NumItems -> Folders] :
                                    \A i, j \in 1..NumItems :
                                      p[i] # NoParents /\ p[j] # NoParents => i = j } }
  /\ InitAttributes
  /\ InitEngine

\* The run is not stopped.
NextNames ==
  \/ Run
  \/ SetupContents
  \/ BeforeProcessItems
  \/ NextItem
  \/ ProcessItem
  \/ BeginExport
  \/ ExportItem
  \/ ExportOnce
  \/ AfterProcessItem
  \/ AfterProcessItems
  \/ CleanupContents

SpecNames == InitNames /\ [][NextNames]_vars

(* ------------------- Batcher.run with keyword arguments ---------------- *)

\* A Batcher made with an overwrite mode and without an overwrite chooser:
\* __init__ passes its arguments to _init_attributes.
InitKwargs ==
  /\ cfg \in { c \in Configs : /\ c.impl = "Batcher"
                               /\ c.initial_run_mode = RUN_NONINTERACTIVE
                               /\ c.process_contents /\ c.process_export
                               /\ ~c.edit_mode /\ ~c.is_preview /\ ~c.keep_image_copy }
  /\ procedures = << >>
  /\ constraints = << >>
  /\ overwrite_mode \in ChooserModes
  /\ overwrite_chooser = _init_attributes(overwrite_mode, NoOverwriteChooser)
  /\ exported_layers = << >>
  /\ renamed_new = {}
  /\ InitOther
  /\ initial_invoker = ProcedureInEveryGroup
  /\ InitRun

\* run(overwrite_mode=M)
RunWithKwargs ==
  \E M \in ChooserModes : RunWith([overwrite_mode |-> M])

NextKwargs ==
  \/ RunWithKwargs
  \/ SetupContents
  \/ BeforeProcessItems
  \/ NextItem
  \/ ProcessItem
  \/ BeginExport
  \/ ExportItem
  \/ ExportOnce
  \/ AfterProcessItem
  \/ AfterProcessItems
  \/ CleanupContents
  \/ Stop

SpecKwargs == InitKwargs /\ [][NextKwargs]_vars

(* --------------- LayerExporter.export(processing_groups) --------------- *)

\* The calls of LayerExporter.export explored: every value of
\* processing_groups.
GroupConfigs ==
  { c \in AllConfigs :
      /\ c.impl = "LayerExporter"
      /\ IsConfig(c)
      /\ c.initial_run_mode = RUN_NONINTERACTIVE
      /\ ~c.edit_mode /\ ~c.is_preview /\ ~c.keep_image_copy }

InitGroups ==
  /\ cfg \in GroupConfigs
  /\ procedures = << >>
  /\ constraints = << >>
  /\ InitAttributes
  /\ InitRun

NextGroups ==
  \/ Run
  \/ SetupContents
  \/ NextItem
  \/ ProcessItem
  \/ BeginExport
  \/ ExportItem
  \/ ExportOnce
  \/ AfterProcessItem
  \/ CleanupContents
  \/ Stop

SpecGroups == InitGroups /\ [][NextGroups]_vars

(* ------------- Batcher.run: the actions and their groups --------------- *)

\* The longest lists of configured procedures and constraints explored.
MaxProcedures == 2

MaxConstraints == 1

\* The procedures the procedural database of the host knows.
PdbProcedures == {"plug-in-autocrop-layer"}

\* The procedures a configuration can hold: the built-in rename and export
\* procedures, a PDB procedure that exists and one that does not.
ProcedureCatalogue ==
  { [orig_name |-> "rename", function |-> "rename_layer",
     is_pdb_procedure |-> FALSE, tags |-> {"procedure", NAME_ONLY_TAG}],
    [orig_name |-> "export", function |-> "export",
     is_pdb_procedure |-> FALSE, tags |-> {"procedure", NAME_ONLY_TAG}],
    [orig_name |-> "autocrop", function |-> "plug-in-autocrop-layer",
     is_pdb_procedure |-> TRUE, tags |-> {"procedure"}],
    [orig_name |-> "removed", function |-> "plug-in-removed",
     is_pdb_procedure |-> TRUE, tags |-> {"procedure"}] }

\* The constraints a configuration can hold; the second one is also a
\* name-only action.
ConstraintCatalogue ==
  { [orig_name |-> "visible", function |-> "is_visible",
     is_pdb_procedure |-> FALSE, tags |-> {"constraint"}],
    [orig_name |-> "matching_file_extension", function |-> "has_matching_file_extension",
     is_pdb_procedure |-> FALSE, tags |-> {"constraint", NAME_ONLY_TAG}] }

\* The constraints that pick the types of the items.
LayerTypeConstraints ==
  { [orig_name |-> "include_layers", function |-> "is_layer",
     is_pdb_procedure |-> FALSE, tags |-> {"constraint"}],
    [orig_name |-> "include_empty_layer_groups", function |-> "is_empty_group",
     is_pdb_procedure |-> FALSE, tags |-> {"constraint"}] }

\* `action['subfilter'].value`: the subfilter the settings name for the
\* constraint.
Subfilter(function) ==
  IF function \in {"is_layer", "is_nonempty_group", "is_empty_group"}
    THEN "layer_types"
    ELSE "None"

\* Whether the function of a constraint accepts the i-th item: every item of
\* the tree is a layer, the odd layers are visible, and the name of no layer
\* ends with the file extension of the run.
ConstraintMatches(function, i) ==
  CASE function = "is_visible" -> i % 2 = 1
    [] function = "is_layer" -> TRUE
    [] function = "is_empty_group" -> FALSE
    [] function = "is_nonempty_group" -> FALSE
    [] OTHER -> get_file_extension(ItemName(i)) = default_file_extension

\* The action settings made of the entries of a catalogue, each with its
\* 'enabled' and 'enabled_for_previews' values.
Settings(catalogue) ==
  { [orig_name |-> c.orig_name, function |-> c.function,
     is_pdb_procedure |-> c.is_pdb_procedure, tags |-> c.tags,
     enabled |-> e, enabled_for_previews |-> p] :
      c \in catalogue, e \in BOOLEAN, p \in BOOLEAN }

\* The lists of at most n settings, no entry of the catalogue twice.
SettingLists(catalogue, n) ==
  UNION { { s \in [1..k -> Settings(catalogue)] :
              \A i, j \in 1..k : i # j => s[i].orig_name # s[j].orig_name } :
          k \in 0..n }

\* The runs explored at the level of the action groups: Batcher, exporting
\* exactly when the run is no preview.
ActionConfigs ==
  { c \in AllConfigs :
      /\ c.impl = "Batcher"
      /\ IsConfig(c)
      /\ c.initial_run_mode = RUN_NONINTERACTIVE
      /\ c.process_export = ~c.is_preview }

\* An action the invoker holds that was made from a setting.
FromSetting(kind, settings, i) ==
  [function |-> settings[i].function, kind |-> kind, index |-> i]

\* Variant that takes the function of a PDB procedure as resolved without
\* looking it up.
ResolveLater(settings) == FALSE

\* Variant that looks up the PDB procedures of the enabled actions only.
ResolveEnabledOnly(settings) ==
  \E i \in DOMAIN settings :
    /\ settings[i].enabled
    /\ settings[i].is_pdb_procedure /\ settings[i].function \notin PdbProcedures

\* _add_action_from_settings, the lookup of a PDB procedure: whether it fails
\* for one of the settings.
InvalidPdbProcedure(settings) ==
  \E i \in DOMAIN settings :
    settings[i].is_pdb_procedure /\ settings[i].function \notin PdbProcedures

\* _add_action_from_settings for each of the settings in turn: the actions
\* added, those settings left out that have none of the tags asked for
\* (tags = {} stands for None).
_add_action_from_settings(kind, settings, tags) ==
  LET chosen == SelectSeq([i \in 1..Len(settings) |-> i],
                          LAMBDA i : tags = {} \/ settings[i].tags \cap tags # {})
  IN [k \in 1..Len(chosen) |-> FromSetting(kind, settings, chosen[k])]

\* Variant that takes every configured procedure of the name, enabled or not.
SuppliedByName(settings, orig_name) ==
  \E i \in DOMAIN settings : settings[i].orig_name = orig_name

\* `any(procedure['orig_name'].value == ... and procedure['enabled'].value
\* for procedure in actions.walk(self._procedures))`
SuppliedAndEnabled(settings, orig_name) ==
  \E i \in DOMAIN settings :
    settings[i].orig_name = orig_name /\ settings[i].enabled

_add_default_rename_procedure(edit_mode, settings) ==
  IF ~edit_mode /\ ~SuppliedAndEnabled(settings, "rename")
    THEN << Added("rename_layer") >>
    ELSE << >>

_add_default_export_procedure(edit_mode, settings) ==
  IF ~edit_mode /\ ~SuppliedAndEnabled(settings, "export")
    THEN << Added("export") >>
    ELSE << >>

\* Variant that adds the configured procedures before the procedures of
\* add_procedure().
ConfiguredFirst(edit_mode, settings) ==
  << Added("set_active_and_current_layer") >>
    \o _add_action_from_settings("procedure", settings, {})
    \o AddInitialInvoker(DEFAULT_PROCEDURES_GROUP)
    \o _add_default_rename_procedure(edit_mode, settings)
    \o _add_default_export_procedure(edit_mode, settings)

\* _add_actions, the default procedures group (the two `foreach` actions wrap
\* each action of the group and are not listed): the procedures of the
\* initial invoker are those added with add_procedure().
DefaultProcedures(edit_mode, settings) ==
  << Added("set_active_and_current_layer") >>
    \o AddInitialInvoker(DEFAULT_PROCEDURES_GROUP)
    \o _add_default_rename_procedure(edit_mode, settings)
    \o _add_action_from_settings("procedure", settings, {})
    \o _add_default_export_procedure(edit_mode, settings)

\* _add_name_only_actions
NameOnlyActions(edit_mode, procedure_settings, constraint_settings) ==
  _add_default_rename_procedure(edit_mode, procedure_settings)
    \o _add_action_from_settings("procedure", procedure_settings, {NAME_ONLY_TAG})
    \o _add_default_export_procedure(edit_mode, procedure_settings)
    \o _add_action_from_settings("constraint", constraint_settings, {NAME_ONLY_TAG})

NoActions == [g \in Groups |-> << >>]

\* The invoker _prepare_for_processing builds (_add_actions, then
\* _add_name_only_actions): the initial invoker is an entry of each of the
\* groups it knows.
InstalledActions(edit_mode, procedure_settings, constraint_settings) ==
  [g \in Groups |->
     CASE g = DEFAULT_PROCEDURES_GROUP ->
            DefaultProcedures(edit_mode, procedure_settings)
       [] g = DEFAULT_CONSTRAINTS_GROUP ->
            AddInitialInvoker(g)
              \o _add_action_from_settings("constraint", constraint_settings, {})
       [] g = _NAME_ONLY_ACTION_GROUP ->
            AddInitialInvoker(g)
              \o NameOnlyActions(edit_mode, procedure_settings, constraint_settings)
       [] OTHER -> AddInitialInvoker(g)]

\* Variant that looks at 'enabled' only, preview or not.
ApplyIfEnabled(is_preview, setting) == setting.enabled

\* The wrapper _apply_action_only_if_enabled puts around the function of an
\* action made from a setting: whether it calls the function.
_apply_action_only_if_enabled(is_preview, setting) ==
  IF is_preview
    THEN setting.enabled /\ setting.enabled_for_previews
    ELSE setting.enabled

\* The setting an installed action was made from.
SettingOf(action) ==
  IF action.kind = "procedure" THEN procedures[action.index]
  ELSE constraints[action.index]

\* Invoker.invoke reaching an entry that is the initial invoker: it invokes
\* the group on that invoker, with the actions the invoker holds at the call.
InvokeInitialInvoker(group) ==
  IF group \in list_groups(initial_invoker) THEN initial_invoker[group] ELSE << >>

\* The actions of a list with every entry that is an invoker replaced by the
\* actions that invoker runs for the group.
RECURSIVE Flattened(_)
Flattened(actions) ==
  IF actions = << >> THEN << >>
  ELSE (IF Head(actions).kind = "invoker"
          THEN InvokeInitialInvoker(Head(actions).function)
          ELSE << Head(actions) >>)
         \o Flattened(Tail(actions))

\* Invoker.invoke on a list of actions: the actions whose functions are
\* called, in the order of the list.
Executed(actions) ==
  SelectSeq(Flattened(actions),
            LAMBDA a : a.kind = "function"
                         \/ _apply_action_only_if_enabled(cfg.is_preview, SettingOf(a)))

\* `self._current_image`: the input image until _setup_contents has made the
\* copy.
CurrentImage ==
  IF eff.image_copy_created > 0 THEN "image_copy" ELSE "input_image"

\* One call of Invoker.invoke for a group, as the log of the run records it:
\* the item and what current_image and current_raw_item are at the call.
Invocation(group, actions, item, raw_item) ==
  [ group |-> group, item |-> item, executed |-> Executed(actions),
    image |-> CurrentImage, raw_item |-> raw_item ]

\* Variant in which a constraint that is called adds no rule to the filter.
NoRuleAdded(executed) == << >>

\* Variant in which the filter holds the rule of the visible items whatever
\* constraints were called.
RuleOfVisibleItems(executed) == << "is_visible" >>

\* The rules the constraints among the called actions add to the filter of
\* the item tree (_get_constraint_func, `if subfilter is None`).
RulesAdded(executed) ==
  LET called == SelectSeq(executed,
                          LAMBDA a : a.kind = "constraint" /\ Subfilter(a.function) = "None")
  IN [k \in 1..Len(called) |-> called[k].function]

\* The subfilters after the constraints among the called actions have added
\* their rules (_get_constraint_func, `else`): a rule goes to the subfilter
\* of the name, which is made and added to the filter if there is none.
SubfilterRulesAdded(subs, executed) ==
  LET called == SelectSeq(executed,
                          LAMBDA a : a.kind = "constraint" /\ Subfilter(a.function) # "None")
      names == { Subfilter(called[k].function) : k \in 1..Len(called) }
      RulesFor(n) ==
        LET of_name == SelectSeq(called, LAMBDA a : Subfilter(a.function) = n)
        IN [k \in 1..Len(of_name) |-> of_name[k].function]
  IN [n \in DOMAIN subs \cup names |->
        (IF n \in DOMAIN subs THEN subs[n] ELSE << >>) \o RulesFor(n)]

\* ObjectFilter.is_match of a filter that holds rules only, MATCH_ALL: an
\* item is let through if every rule accepts it.
MatchAll(i, rules) ==
  \A k \in 1..Len(rules) : ConstraintMatches(rules[k], i)

\* The filter of the item tree (MATCH_ALL): an item is let through if every
\* rule accepts it and every subfilter lets it through.
ItemMatches(i, rules) ==
  /\ MatchAll(i, rules)
  /\ \A n \in DOMAIN subfilters : MatchAll(i, subfilters[n])

\* `for item in self._item_tree`: the next item after the i-th that the filter
\* lets through (NumItems + 1 if there is none).
NextMatchingItem(i, rules) ==
  LET rest == { j \in (i + 1)..NumItems : ItemMatches(j, rules) }
  IN IF rest = {} THEN NumItems + 1
     ELSE CHOOSE j \in rest : \A k \in rest : j <= k

\* The file extension under which export() counts the i-th item: that of the
\* name it has given the item if names are processed.
ExportedFileExtension(i) ==
  IF cfg.process_names
    THEN get_file_extension(validate(items[i].name \o << default_file_extension >>))
    ELSE get_file_extension(items[i].name)

\* The constraint that lets the visible layers through, enabled.
OnlyVisible ==
  [orig_name |-> "visible", function |-> "is_visible",
   is_pdb_procedure |-> FALSE, tags |-> {"constraint"},
   enabled |-> TRUE, enabled_for_previews |-> TRUE]

\* The configurations explored: every list of procedures, with no constraint
\* or with the one above, in the runs that process names and keep no image
\* copy; every list of constraints, with no procedure, in every run.
InitActions ==
  /\ cfg \in ActionConfigs
  /\ \/ /\ procedures \in SettingLists(ProcedureCatalogue, MaxProcedures)
        /\ constraints \in {<< >>, << OnlyVisible >>}
        /\ cfg.process_names
        /\ ~cfg.keep_image_copy
     \/ /\ procedures = << >>
        /\ constraints \in SettingLists(ConstraintCatalogue, MaxConstraints)
  /\ InitAttributes
  /\ InitRun

\* Variant that keeps the rules the filter of the item tree holds.
KeepFilter(rules) == rules

\* `if self._item_tree.filter: self._item_tree.reset_filter()`: the rules a
\* reused item tree holds from an earlier run are removed.
reset_filter(rules) ==
  IF rules # << >> THEN << >> ELSE rules

\* Batcher.run up to the call of _setup_contents: _init_attributes and
\* _prepare_for_processing, which resets the filter of the item tree, builds
\* the invoker (or fails on a PDB procedure that does not exist) and applies
\* the constraints.
\* len(item tree): the items the filter lets through.
MatchingItems(rules, subs) ==
  { i \in 1..NumItems :
      MatchAll(i, rules) /\ \A n \in DOMAIN subs : MatchAll(i, subs[n]) }

PrepareForProcessing ==
  /\ pc = "idle"
  /\ PrepareItemTree([overwrite_mode |-> overwrite_mode])
  /\ should_stop' = FALSE
  /\ idx' = 0
  /\ file_extension_properties' = NewFileExtensionProperties
  /\ current_file_extension' = default_file_extension
  /\ current_overwrite_mode' = "None"
  /\ export_status' = NOT_EXPORTED_YET
  /\ uniquified' = {}
  /\ IF InvalidPdbProcedure(procedures) \/ InvalidPdbProcedure(constraints)
       THEN /\ invoker' = NoActions
            /\ invoked' = << >>
            /\ filter' = reset_filter(filter)
            /\ subfilters' = NoSubfilters
            /\ pc' = "done"
            /\ progress' = progress
            /\ result' = Raised(Error("InvalidPdbProcedureError",
                                      << "invalid PDB procedure" >>, << >>, ""))
       ELSE LET installed == InstalledActions(cfg.edit_mode, procedures, constraints)
                set_constraints ==
                  Invocation(DEFAULT_CONSTRAINTS_GROUP,
                             installed[DEFAULT_CONSTRAINTS_GROUP], 0, "None")
            IN /\ invoker' = installed
               /\ invoked' = << set_constraints >>
               /\ filter' = reset_filter(filter) \o RulesAdded(set_constraints.executed)
               /\ subfilters' = SubfilterRulesAdded(NoSubfilters, set_constraints.executed)
               /\ progress' = ResetProgress(Cardinality(MatchingItems(filter', subfilters')))
               /\ pc' = IF cfg.process_contents THEN "setup" ELSE "before_items"
               /\ result' = result
  /\ UNCHANGED << overwrite_mode, overwrite_chooser, exported_layers, initial_invoker,
                  renamed_new, otherVars,
                  procedures, constraints, cfg, files, itemVars, exc, eff >>

\* _process_items before the loop.
InvokeBeforeProcessItems ==
  /\ pc = "before_items"
  /\ invoked' =
       invoked
         \o << Invocation("before_process_items",
                          invoker["before_process_items"], 0, "None") >>
         \o IF cfg.process_contents
              THEN << Invocation("before_process_items_contents",
                                 invoker["before_process_items_contents"], 0, "None") >>
              ELSE << >>
  /\ pc' = "loop"
  /\ UNCHANGED << attrVars, procedures, constraints, invoker, filter, subfilters,
                  cfg, idx, items,
                  should_stop, engineVars, itemVars, exc, eff, result >>

\* The head of the loop: the next item the filter lets through, and the check
\* of _should_stop.
NextFilteredItem ==
  /\ pc = "loop"
  /\ LET next == NextMatchingItem(idx, filter)
     IN IF next > NumItems
          THEN pc' = "after_items" /\ UNCHANGED << idx, exc, result >>
          ELSE IF should_stop
            THEN /\ RaiseFrom(Error("CancelError", << "stopped by user" >>, << >>, ""))
                 /\ idx' = idx
            ELSE pc' = "process_item" /\ idx' = next /\ UNCHANGED << exc, result >>
  /\ UNCHANGED << attrVars, actionVars, cfg, items, should_stop, engineVars,
                  itemVars, eff >>

\* Variant that invokes the '*_contents' groups outside the plain ones.
ContentsGroupsOutside(process_contents) ==
  (IF process_contents THEN << "before_process_item_contents" >> ELSE << >>)
    \o << "before_process_item", DEFAULT_PROCEDURES_GROUP, "after_process_item" >>
    \o (IF process_contents THEN << "after_process_item_contents" >> ELSE << >>)

\* The groups _process_item_with_actions invokes, in its order.
GroupsOfItemWithActions(process_contents) ==
  << "before_process_item" >>
    \o (IF process_contents THEN << "before_process_item_contents" >> ELSE << >>)
    \o << DEFAULT_PROCEDURES_GROUP >>
    \o (IF process_contents THEN << "after_process_item_contents" >> ELSE << >>)
    \o << "after_process_item" >>

\* The groups _process_item_with_name_only_actions invokes, in its order.
GroupsOfItemWithNameOnlyActions ==
  << "before_process_item", _NAME_ONLY_ACTION_GROUP, "after_process_item" >>

\* Variant that works on the layer itself whatever the mode.
RawItemItself(edit_mode, is_preview) == "layer"

\* `self._current_raw_item` in _process_item_with_actions: a copy of the layer
\* pasted into the current image, unless the run edits the image itself.
RawItemWithActions(edit_mode, is_preview) ==
  IF ~edit_mode \/ is_preview THEN "layer_copy" ELSE "layer"

\* _process_item: the name-only actions in a preview that processes names,
\* then, if contents are processed, _process_item_with_actions and
\* _refresh_current_image.  Every export succeeds at its first call and no
\* file is in the way.
ProcessItemGroups ==
  /\ pc = "process_item"
  /\ LET Invocations(groups, raw_item) ==
           [k \in 1..Len(groups) |->
              Invocation(groups[k], invoker[groups[k]], idx, raw_item)]
         name_only ==
           IF cfg.is_preview /\ cfg.process_names
             THEN Invocations(GroupsOfItemWithNameOnlyActions, "layer")
             ELSE << >>
         with_actions ==
           IF cfg.process_contents
             THEN Invocations(GroupsOfItemWithActions(cfg.process_contents),
                              RawItemWithActions(cfg.edit_mode, cfg.is_preview))
             ELSE << >>
         exports ==
           IF cfg.process_contents /\ cfg.process_export
             THEN Len(SelectSeq(Executed(invoker[DEFAULT_PROCEDURES_GROUP]),
                                LAMBDA a : a.function = "export"))
             ELSE 0
     IN /\ invoked' = invoked \o name_only \o with_actions
        /\ filter' = IF name_only = << >> THEN filter
                     ELSE filter \o RulesAdded(name_only[2].executed)
        /\ subfilters' = IF name_only = << >> THEN subfilters
                         ELSE SubfilterRulesAdded(subfilters, name_only[2].executed)
        /\ file_extension_properties' =
             [file_extension_properties EXCEPT
                ![ExtensionRecord(ExportedFileExtension(idx))].processed_count =
                   @ + exports]
  /\ progress' = update_tasks(progress)
  /\ pc' = "loop"
  /\ UNCHANGED << overwrite_mode, overwrite_chooser, exported_layers, initial_invoker,
                  renamed_new, otherVars, treeVars,
                  procedures, constraints, invoker, cfg, idx, items,
                  should_stop,
                  current_file_extension, current_overwrite_mode, export_status,
                  files, uniquified, itemVars, exc, eff, result >>

\* _process_items after the loop.
InvokeAfterProcessItems ==
  /\ pc = "after_items"
  /\ invoked' =
       invoked
         \o (IF cfg.process_contents
               THEN << Invocation("after_process_items_contents",
                                  invoker["after_process_items_contents"], 0, "None") >>
               ELSE << >>)
         \o << Invocation("after_process_items",
                          invoker["after_process_items"], 0, "None") >>
  /\ ReturnFromProcessItems
  /\ UNCHANGED << attrVars, procedures, constraints, invoker, filter, subfilters,
                  cfg, idx, items,
                  should_stop, engineVars, itemVars, eff >>

\* The user changes the 'enabled' value of a configured action while the run
\* updates its progress after the first item.
SetEnabled ==
  /\ pc = "loop"
  /\ idx = 1
  /\ \/ \E i \in DOMAIN procedures :
          /\ procedures' = [procedures EXCEPT ![i].enabled = ~@]
          /\ constraints' = constraints
     \/ \E i \in DOMAIN constraints :
          /\ constraints' = [constraints EXCEPT ![i].enabled = ~@]
          /\ procedures' = procedures
  /\ UNCHANGED << attrVars, invoker, invoked, filter, subfilters, cfg, pc, idx, items,
                  should_stop,
                  engineVars, itemVars, exc, eff, result >>

NextActions ==
  \/ PrepareForProcessing
  \/ SetupContents
  \/ InvokeBeforeProcessItems
  \/ NextFilteredItem
  \/ ProcessItemGroups
  \/ InvokeAfterProcessItems
  \/ CleanupContents
  \/ SetEnabled

SpecActions == InitActions /\ [][NextActions]_vars

(* ------------------ Batcher.run called again and again ----------------- *)

\* The procedure of the configurations explored over several runs.
Autocrop ==
  [orig_name |-> "autocrop", function |-> "plug-in-autocrop-layer",
   is_pdb_procedure |-> TRUE, tags |-> {"procedure"},
   enabled |-> TRUE, enabled_for_previews |-> TRUE]

\* A Batcher before its first run: no procedure or the one above, and every
\* list of constraints.
InitRuns ==
  /\ cfg \in ActionConfigs
  /\ procedures \in {<< >>, << Autocrop >>}
  /\ constraints \in SettingLists(ConstraintCatalogue, MaxConstraints)
  /\ InitAttributes
  /\ InitRun

\* run() has ended and the caller, who may have changed the constraints in
\* between, calls it again on the same Batcher: the item tree the first run
\* has created is reused, with the rules its filter holds.  `result` keeps
\* what the last run() has returned or raised until the next one ends.
RunAgain ==
  /\ pc = "done"
  /\ pc' = "idle"
  /\ idx' = 0
  /\ constraints' \in SettingLists(ConstraintCatalogue, MaxConstraints)
  /\ invoker' = << >>
  /\ invoked' = << >>
  /\ exc' = NoError
  /\ eff' = NoEffects
  /\ UNCHANGED << attrVars, procedures, filter, subfilters, cfg, items, should_stop,
                  engineVars,
                  itemVars, result >>

NextRuns ==
  \/ NextActions
  \/ RunAgain

SpecRuns == InitRuns /\ [][NextRuns]_vars

(* ------------- Batcher.add_procedure called during a run --------------- *)

\* The groups the procedures explored are added to.
AddedTo == {DEFAULT_PROCEDURES_GROUP, "after_process_items"}

\* A Batcher before its first run, add_procedure() not called yet or called
\* once, for the default procedures group.
InitAdd ==
  /\ cfg \in ActionConfigs
  /\ procedures = << >>
  /\ constraints = << >>
  /\ overwrite_mode = DefaultOverwriteMode
  /\ overwrite_chooser = _init_attributes(overwrite_mode, InteractiveOverwriteChooser)
  /\ exported_layers = << >>
  /\ renamed_new = {}
  /\ InitOther
  /\ initial_invoker \in {NewInvoker, InvokerAdd(NewInvoker, "P1", DEFAULT_PROCEDURES_GROUP)}
  /\ InitRun

\* Whether the invoker holds the procedure in one of its groups.
Holds(invkr, function) ==
  \E g \in DOMAIN invkr : \E k \in 1..Len(invkr[g]) : invkr[g][k] = Added(function)

\* add_procedure(P2, [group]) called while the first run() of the Batcher is
\* between two items (by a procedure of the item before, or by the progress
\* updater): `self._initial_invoker.add(...)`.
AddProcedure ==
  /\ pc = "loop"
  /\ result.state = "none"
  /\ ~Holds(initial_invoker, "P2")
  /\ \E group \in AddedTo :
       initial_invoker' = InvokerAdd(initial_invoker, "P2", group)
  /\ UNCHANGED << overwrite_mode, overwrite_chooser, exported_layers, renamed_new,
                  otherVars, treeVars, progress,
                  actionVars, cfg, pc, idx, items, should_stop, engineVars,
                  itemVars, exc, eff, result >>

NextAdd ==
  \/ NextRuns
  \/ AddProcedure

SpecAdd == InitAdd /\ [][NextAdd]_vars

(* -------- Batcher.add_procedure, reorder_action, remove_action --------- *)

\* The procedures explored.
AddedProcedures == {"P1", "P2", "P3"}

\* The position of the action with the function in a list of actions (0 if
\* there is none).
PositionOf(actions, function) ==
  IF \E k \in 1..Len(actions) : actions[k] = Added(function)
    THEN CHOOSE k \in 1..Len(actions) : actions[k] = Added(function)
    ELSE 0

\* A list of actions without its k-th.
Without(actions, k) ==
  SubSeq(actions, 1, k - 1) \o SubSeq(actions, k + 1, Len(actions))

\* Invoker.reorder(action_id, group, position): the action is taken out of
\* the list of the group and put back at the position (counted from 0).
InvokerReorder(invkr, function, group, position) ==
  LET k == PositionOf(invkr[group], function)
      others == Without(invkr[group], k)
  IN [invkr EXCEPT ![group] =
        SubSeq(others, 1, position) \o << invkr[group][k] >>
          \o SubSeq(others, position + 1, Len(others))]

\* Invoker.remove(action_id, [group]): the group stays known to the invoker.
InvokerRemove(invkr, function, group) ==
  [invkr EXCEPT ![group] = Without(@, PositionOf(@, function))]

\* A Batcher before its first run, add_procedure() not called yet.
InitOrder ==
  /\ cfg \in ActionConfigs
  /\ procedures = << >>
  /\ constraints = << >>
  /\ overwrite_mode = DefaultOverwriteMode
  /\ overwrite_chooser = _init_attributes(overwrite_mode, InteractiveOverwriteChooser)
  /\ exported_layers = << >>
  /\ renamed_new = {}
  /\ InitOther
  /\ initial_invoker = NewInvoker
  /\ InitRun

\* What the calls made before run() leave alone.
UnchangedByCaller ==
  UNCHANGED << overwrite_mode, overwrite_chooser, exported_layers, renamed_new,
               otherVars, treeVars, progress,
               actionVars, cfg, pc, idx, items, should_stop, engineVars,
               itemVars, exc, eff, result >>

\* add_procedure(function, [group]) before run(), of a procedure the group
\* does not hold.
AddProcedureBeforeRun ==
  /\ pc = "idle"
  /\ \E function \in AddedProcedures, group \in AddedTo :
       /\ group \in list_groups(initial_invoker) =>
            PositionOf(initial_invoker[group], function) = 0
       /\ initial_invoker' = InvokerAdd(initial_invoker, function, group)
  /\ UnchangedByCaller

\* reorder_action(action_id, group, position) before run(), of an action the
\* group holds.
ReorderAction ==
  /\ pc = "idle"
  /\ \E group \in list_groups(initial_invoker) :
       \E k \in 1..Len(initial_invoker[group]) :
         \E position \in 0..(Len(initial_invoker[group]) - 1) :
           initial_invoker' =
             InvokerReorder(initial_invoker, initial_invoker[group][k].function,
                            group, position)
  /\ UnchangedByCaller

\* remove_action(action_id, [group]) before run(), of an action the group
\* holds.
RemoveAction ==
  /\ pc = "idle"
  /\ \E group \in list_groups(initial_invoker) :
       \E k \in 1..Len(initial_invoker[group]) :
         initial_invoker' =
           InvokerRemove(initial_invoker, initial_invoker[group][k].function, group)
  /\ UnchangedByCaller

NextOrder ==
  \/ AddProcedureBeforeRun
  \/ ReorderAction
  \/ RemoveAction
  \/ PrepareForProcessing
  \/ SetupContents
  \/ InvokeBeforeProcessItems
  \/ NextFilteredItem
  \/ ProcessItemGroups
  \/ InvokeAfterProcessItems
  \/ CleanupContents

SpecOrder == InitOrder /\ [][NextOrder]_vars

(* ------------- Batcher.run: the filter and its subfilters -------------- *)

\* The constraints of the configurations explored for the filter: those of
\* the catalogue and those that pick the types of the items.
FilterCatalogue == ConstraintCatalogue \cup LayerTypeConstraints

\* A Batcher before run(): no procedure, and every list of constraints that
\* are enabled for previews, two longer than elsewhere.
InitFilter ==
  /\ cfg \in ActionConfigs
  /\ procedures = << >>
  /\ constraints \in
       { c \in SettingLists(FilterCatalogue, MaxConstraints + 2) :
           \A i \in DOMAIN c : c[i].enabled_for_previews }
  /\ InitAttributes
  /\ InitRun

SpecFilter == InitFilter /\ [][NextActions]_vars

(* ------------------------------ update() ------------------------------- *)

\* The statuses of update().
FRESH_START == 0
UPDATE == 1
CLEAR_SETTINGS == 2
NO_ACTION == 3
TERMINATE == 4

\* A source that has data which cannot be read.
SourceUnreadable == [has_data |-> TRUE, readable |-> FALSE, version |-> << >>]

\* A source that holds the settings of the plug-in of a version.
SourceWith(version) == [has_data |-> TRUE, readable |-> TRUE, version |-> version]

\* What a source may hold as 'main/plugin_version': an older version, the
\* version of the plug-in, a newer version, or a string that is no version.
StoredVersions == { << 0, 2 >>, PLUGIN_VERSION, << 2, 0 >>, << >> }

SourceStates ==
  {SourceMissing, SourceUnreadable} \cup { SourceWith(v) : v \in StoredVersions }

\* The statuses of pg.setting.Persistor.
PersistorSuccess == "SUCCESS"
PersistorSourceNotFound == "SOURCE_NOT_FOUND"
PersistorFail == "FAIL"

\* The values of handle_invalid explored, and the answers of the user.
HandleInvalidValues == {"ask_to_clear", "clear", "ignore"}
Responses == {"YES", "NO"}

\* A Batcher that is not running.
IdleBatcher ==
  /\ cfg = CHOOSE c \in Configs : c.impl = "Batcher" /\ c.process_export
  /\ procedures = << >>
  /\ constraints = << >>
  /\ overwrite_mode = DefaultOverwriteMode
  /\ overwrite_chooser = _init_attributes(overwrite_mode, InteractiveOverwriteChooser)
  /\ exported_layers = << >>
  /\ renamed_new = {}
  /\ initial_invoker = ProcedureInEveryGroup
  /\ item_tree = NoItemTree
  /\ trees_built = 0
  /\ progress = NewProgressUpdater
  /\ InitRun

\* The plug-in started with any contents of the setting sources.
InitUpdate ==
  /\ sources \in [1..Len(SourceNames) -> SourceStates]
  /\ plugin_version = PLUGIN_VERSION
  /\ update_call = NoUpdateCall
  /\ temp_rules = << >>
  /\ file_format_options = NoOptions
  /\ options_call = NoOptionsCall
  /\ IdleBatcher

\* _is_fresh_start: no source has data.
_is_fresh_start(srcs) == \A n \in DOMAIN srcs : ~srcs[n].has_data

\* version.Version.parse: the version of a string of two numbers, None for
\* anything else (InvalidVersionFormatError is caught by the caller).
VersionParse(value) ==
  IF Len(value) = 2
    THEN [is_none |-> FALSE, major |-> value[1], minor |-> value[2]]
    ELSE [is_none |-> TRUE, major |-> 0, minor |-> 0]

\* Version.__lt__
VersionLess(v, w) ==
  \/ v.major < w.major
  \/ v.major = w.major /\ v.minor < w.minor

\* The status Setting.load reports for a source.
StatusOfSource(source) ==
  IF ~source.has_data THEN PersistorSourceNotFound
  ELSE IF source.readable THEN PersistorSuccess
  ELSE PersistorFail

\* `load_result.statuses_per_source`
statuses_per_source(srcs) == [n \in DOMAIN srcs |-> StatusOfSource(srcs[n])]

\* `load_result.status`: success if every source was read.
LoadResultStatus(srcs) ==
  IF \A n \in DOMAIN srcs : StatusOfSource(srcs[n]) = PersistorSuccess
    THEN PersistorSuccess
    ELSE PersistorFail

\* The value of the setting after Setting.load: the value of the last source
\* that was read, the value the setting had if no source was read.
RECURSIVE LoadedValue(_, _, _)
LoadedValue(srcs, n, value) ==
  IF n = 0 THEN value
  ELSE IF srcs[n].readable THEN srcs[n].version
  ELSE LoadedValue(srcs, n - 1, value)

\* The load status of _load_previous_version for a value that is a version:
\* success if a source is missing, the status of the load otherwise.
StatusIgnoringMissing(srcs) ==
  IF \E n \in DOMAIN srcs : statuses_per_source(srcs)[n] = PersistorSourceNotFound
    THEN PersistorSuccess
    ELSE LoadResultStatus(srcs)

\* _load_previous_version: the setting is loaded and its value parsed.
_load_previous_version(srcs, value) ==
  LET loaded == LoadedValue(srcs, Len(srcs), value)
      previous_version == VersionParse(loaded)
  IN [ value |-> loaded,
       previous_version |-> previous_version,
       load_status |-> IF previous_version.is_none
                         THEN PersistorFail
                         ELSE StatusIgnoringMissing(srcs) ]

\* utils.save_plugin_version: the version of the plug-in is saved to every
\* source.
save_plugin_version(srcs) == [n \in DOMAIN srcs |-> SourceWith(PLUGIN_VERSION)]

\* utils.clear_setting_sources
clear_setting_sources(srcs) == [n \in DOMAIN srcs |-> SourceMissing]

\* handle_update: the sources are cleared and the settings, the plug-in
\* version reset before, are saved to them.
handle_update(srcs) == [n \in DOMAIN srcs |-> SourceWith(PLUGIN_VERSION)]

\* The answer of the user recorded for a call: none if no message was shown.
Asked(handle_invalid, response) ==
  IF handle_invalid = "ask_to_clear" THEN response ELSE "none"

\* update(settings, handle_invalid, sources); `response` is what the user
\* answers if the message is displayed.
Update(handle_invalid, response) ==
  LET current_version == VersionParse(PLUGIN_VERSION)
      load == _load_previous_version(sources, plugin_version)
      Return(status, asked) ==
        update_call' = [handle_invalid |-> handle_invalid,
                        response |-> asked, status |-> status]
  IN /\ pc = "idle"
     /\ IF _is_fresh_start(sources)
          THEN /\ sources' = save_plugin_version(sources)
               /\ plugin_version' = PLUGIN_VERSION
               /\ Return(FRESH_START, "none")
          ELSE IF load.load_status = PersistorSuccess /\ ~load.previous_version.is_none
            THEN IF load.previous_version = current_version
                   THEN /\ plugin_version' = load.value
                        /\ Return(NO_ACTION, "none")
                        /\ UNCHANGED sources
                   ELSE /\ plugin_version' = PLUGIN_VERSION
                        /\ sources' = handle_update(sources)
                        /\ Return(UPDATE, "none")
            ELSE /\ plugin_version' = load.value
                 /\ IF handle_invalid = "ask_to_clear"
                      THEN IF response = "YES"
                             THEN /\ sources' = clear_setting_sources(sources)
                                  /\ Return(CLEAR_SETTINGS, response)
                             ELSE /\ Return(TERMINATE, response)
                                  /\ UNCHANGED sources
                      ELSE IF handle_invalid = "clear"
                        THEN /\ sources' = clear_setting_sources(sources)
                             /\ Return(CLEAR_SETTINGS, "none")
                        ELSE /\ Return(TERMINATE, "none")
                             /\ UNCHANGED sources
     /\ UNCHANGED << overwrite_mode, overwrite_chooser, exported_layers,
                     initial_invoker, renamed_new, temp_rules, treeVars, progress,
                     file_format_options, options_call, actionVars, cfg, pc, idx,
                     items, should_stop, engineVars, itemVars, exc, eff, result >>

\* The plug-in is started again and again.
NextUpdate ==
  \E handle_invalid \in HandleInvalidValues, response \in Responses :
    Update(handle_invalid, response)

SpecUpdate == InitUpdate /\ [][NextUpdate]_vars

(* ------------- LayerExporter._preprocess_layers: the filter ------------ *)

\* The constraints of settings['main/constraints/include'], all of the
\* subfilter 'layer_types'.
IncludeConstraints ==
  LayerTypeConstraints \cup
    { [orig_name |-> "include_layer_groups", function |-> "is_nonempty_group",
       is_pdb_procedure |-> FALSE, tags |-> {"constraint"}] }

\* The calls of LayerExporter.export explored for the filter: a normal
\* export, the image copy kept or not.
TempConfigs ==
  { c \in AllConfigs :
      /\ c.impl = "LayerExporter"
      /\ IsConfig(c)
      /\ c.processing_groups = NoProcessingGroups
      /\ c.initial_run_mode = RUN_NONINTERACTIVE
      /\ ~c.edit_mode /\ ~c.is_preview }

\* A LayerExporter before export(): no procedure, and every list of
\* constraints that are enabled for previews.
InitTemp ==
  /\ cfg \in TempConfigs
  /\ procedures = << >>
  /\ constraints \in
       { c \in SettingLists(IncludeConstraints \cup {CHOOSE v \in ConstraintCatalogue :
                                                         v.function = "is_visible"},
                            MaxConstraints + 2) :
           \A i \in DOMAIN c : c[i].enabled_for_previews }
  /\ InitAttributes
  /\ InitRun

\* ObjectFilter.has_rule
has_rule(rules, rule) == \E k \in 1..Len(rules) : rules[k] = rule

\* ObjectFilter.add_rule
add_rule(rules, rule) == Append(rules, rule)

\* ObjectFilter.remove_rule
remove_rule(rules, rule) == SelectSeq(rules, LAMBDA r : r # rule)

\* The rules of the filter (subfilter "None") or of one of its subfilters.
RulesOf(flt, subs, subfilter) ==
  IF subfilter = "None" THEN flt ELSE subs[subfilter]

\* ObjectFilter.add_rule_temp on entry: the rule is added unless the filter
\* holds it; what is to be done when the block is left is noted.
add_rule_temp(rules, subfilter, rule) ==
  [ rules |-> IF has_rule(rules, rule) THEN rules ELSE add_rule(rules, rule),
    note |-> [subfilter |-> subfilter, rule |-> rule,
              undo |-> IF has_rule(rules, rule) THEN "nothing" ELSE "remove"] ]

\* ObjectFilter.remove_rule_temp(rule, False) on entry: the rule is removed
\* if the filter holds it.
remove_rule_temp(rules, subfilter, rule) ==
  [ rules |-> remove_rule(rules, rule),
    note |-> [subfilter |-> subfilter, rule |-> rule,
              undo |-> IF has_rule(rules, rule) THEN "add" ELSE "nothing"] ]

\* The `finally` clause of add_rule_temp and remove_rule_temp.
Undone(rules, note) ==
  CASE note.undo = "remove" -> remove_rule(rules, note.rule)
    [] note.undo = "add" -> add_rule(rules, note.rule)
    [] OTHER -> rules

\* The rules of the filter or of a subfilter after the `finally` clauses of
\* the blocks that are open have run, the innermost first.
RECURSIVE UndoneAll(_, _, _)
UndoneAll(rules, subfilter, notes) ==
  IF notes = << >> THEN rules
  ELSE UndoneAll(IF notes[Len(notes)].subfilter = subfilter
                   THEN Undone(rules, notes[Len(notes)])
                   ELSE rules,
                 subfilter, SubSeq(notes, 1, Len(notes) - 1))

\* The constraints of a list that are called when the group they are in is
\* invoked: those of the subfilter 'layer_types' are in the group
\* CONSTRAINTS_LAYER_TYPES_GROUP, the others in the default group.
CalledConstraints(layer_types) ==
  LET actions == [i \in DOMAIN constraints |-> FromSetting("constraint", constraints, i)]
  IN SelectSeq(actions,
               LAMBDA a : /\ (Subfilter(a.function) = "layer_types") = layer_types
                          /\ _apply_action_only_if_enabled(cfg.is_preview, SettingOf(a)))

\* The exception a block raises.
BlockError(block) == Error("Exception", << block >>, <<>>, "")

\* What the steps of _preprocess_layers leave alone.
UnchangedByPreprocess ==
  UNCHANGED << overwrite_mode, overwrite_chooser, exported_layers, initial_invoker,
               renamed_new, sources, plugin_version, update_call,
               treeVars, file_format_options, options_call,
               procedures, constraints, invoker, invoked,
               cfg, idx, items, should_stop, engineVars, itemVars, exc, eff >>

\* export() up to _init_tagged_layer_elems: _init_attributes, and of
\* _preprocess_layers the reset of the filter and, in _set_layer_constraints,
\* the subfilter 'layer_types' and the constraints of its group.
SetLayerTypeConstraints ==
  /\ pc = "idle"
  /\ filter' = reset_filter(filter)
  /\ subfilters' =
       SubfilterRulesAdded([n \in {"layer_types"} |-> << >>], CalledConstraints(TRUE))
  /\ pc' = "init_tagged_layer_elems"
  /\ UNCHANGED << temp_rules, progress, result >>
  /\ UnchangedByPreprocess

\* _init_tagged_layer_elems enters its two `with` blocks.
EnterTaggedBlock ==
  /\ pc = "init_tagged_layer_elems"
  /\ LET outer == add_rule_temp(filter, "None", "has_tags")
         inner == add_rule_temp(subfilters["layer_types"], "layer_types",
                                "is_nonempty_group")
     IN /\ filter' = outer.rules
        /\ subfilters' = [subfilters EXCEPT !["layer_types"] = inner.rules]
        /\ temp_rules' = << outer.note, inner.note >>
  /\ pc' = "tagged_block"
  /\ UNCHANGED << progress, result >>
  /\ UnchangedByPreprocess

\* Variant in which a block that raises is left with the rules as they are.
LeftWithoutUndoIfRaised(rules, subfilter, raised) ==
  IF raised THEN rules ELSE UndoneAll(rules, subfilter, temp_rules)

\* The rules of the filter or a subfilter when the `with` blocks that are
\* open are left, by a return or by an exception.
LeftBlocks(rules, subfilter, raised) == UndoneAll(rules, subfilter, temp_rules)

\* The blocks that are open are left; an exception leaves export(), which
\* has not reached its `try` statement.
LeaveBlocks(raised, block, next) ==
  /\ filter' = LeftBlocks(filter, "None", raised)
  /\ subfilters' = [n \in DOMAIN subfilters |-> LeftBlocks(subfilters[n], n, raised)]
  /\ temp_rules' = << >>
  /\ IF raised
       THEN /\ pc' = "done"
            /\ result' = Raised(BlockError(block))
       ELSE /\ pc' = next
            /\ result' = result
  /\ UNCHANGED progress
  /\ UnchangedByPreprocess

\* The loop of _init_tagged_layer_elems ends or raises.
LeaveTaggedBlock ==
  /\ pc = "tagged_block"
  /\ \E raised \in BOOLEAN :
       LeaveBlocks(raised, "_init_tagged_layer_elems", "set_constraints")

\* _set_layer_constraints invokes the default group of constraints; back in
\* _preprocess_layers, the `with` block is entered if the image copy is kept.
SetConstraints ==
  /\ pc = "set_constraints"
  /\ progress' =
       [progress EXCEPT
          !.num_total_tasks =
             Cardinality(MatchingItems(filter \o RulesAdded(CalledConstraints(FALSE)),
                                       subfilters))]
  /\ UNCHANGED result
  /\ UnchangedByPreprocess
  /\ IF cfg.keep_image_copy
       THEN LET removed == remove_rule_temp(subfilters["layer_types"], "layer_types",
                                            "is_empty_group")
            IN /\ filter' = filter \o RulesAdded(CalledConstraints(FALSE))
               /\ subfilters' = [subfilters EXCEPT !["layer_types"] = removed.rules]
               /\ temp_rules' = << removed.note >>
               /\ pc' = "keep_image_copy_block"
       ELSE /\ filter' = filter \o RulesAdded(CalledConstraints(FALSE))
            /\ UNCHANGED << subfilters, temp_rules >>
            /\ pc' = "preprocessed"

\* The block of _preprocess_layers ends or raises.
LeaveKeepImageCopyBlock ==
  /\ pc = "keep_image_copy_block"
  /\ \E raised \in BOOLEAN : LeaveBlocks(raised, "_preprocess_layers", "preprocessed")

NextTemp ==
  \/ SetLayerTypeConstraints
  \/ EnterTaggedBlock
  \/ LeaveTaggedBlock
  \/ SetConstraints
  \/ LeaveKeepImageCopyBlock

SpecTemp == InitTemp /\ [][NextTemp]_vars

(* ----------- runs on layers named with file extensions of JPEG --------- *)

\* The file extensions of the JPEG format as layer names may carry them.
JpegExtensions == {"jpg", "jpeg", "jpe", "JPG"}

\* A layer named with a file extension.
ItemNamed(name) == [orig_name |-> name, name |-> name, parents |-> NoParents]

\* Runs of Batcher that export the layers under the names they have, the
\* first run mode RUN_INTERACTIVE: the first layer is "a.jpg", every other
\* layer has one of the extensions of JPEG.
InitFormats ==
  /\ cfg \in { c \in Configs : /\ c.impl = "Batcher"
                               /\ c.process_contents /\ c.process_export
                               /\ ~c.process_names
                               /\ ~c.edit_mode /\ ~c.is_preview
                               /\ c.initial_run_mode = RUN_INTERACTIVE }
  /\ procedures = << >>
  /\ constraints = << >>
  /\ items \in { tree \in [1..NumItems -> { ItemNamed(<< "a", e >>) : e \in JpegExtensions }] :
                   tree[1].name = << "a", "jpg" >> }
  /\ InitAttributes
  /\ InitEngine

SpecFormats == InitFormats /\ [][NextNames]_vars

(* -------------------- runs of one Batcher, item trees ------------------ *)

\* The most item trees the runs build.
MaxTrees == 2

\* What the caller passes for item_tree: nothing, None, or a tree they made.
ItemTreeKwargs ==
  {[overwrite_mode |-> overwrite_mode]}
    \cup {[overwrite_mode |-> overwrite_mode, item_tree |-> tree] :
            tree \in {NoItemTree, CallerTree(1)}}

\* A Batcher that exports nothing, made with an item tree or without.
InitTrees ==
  /\ cfg \in { c \in AllConfigs : /\ IsConfig(c)
                                  /\ c.impl = "Batcher"
                                  /\ ~c.process_names /\ ~c.process_export
                                  /\ ~c.edit_mode /\ ~c.is_preview
                                  /\ c.initial_run_mode = RUN_NONINTERACTIVE }
  /\ procedures = << >>
  /\ constraints = << >>
  /\ overwrite_mode = DefaultOverwriteMode
  /\ overwrite_chooser = _init_attributes(overwrite_mode, InteractiveOverwriteChooser)
  /\ exported_layers = << >>
  /\ renamed_new = {}
  /\ initial_invoker = ProcedureInEveryGroup
  /\ sources = [n \in 1..Len(SourceNames) |-> SourceMissing]
  /\ plugin_version = PLUGIN_VERSION
  /\ update_call = NoUpdateCall
  /\ temp_rules = << >>
  /\ item_tree \in {NoItemTree, CallerTree(1)}
  /\ trees_built = 0
  /\ progress = NewProgressUpdater
  /\ file_format_options = NoOptions
  /\ options_call = NoOptionsCall
  /\ InitRun

\* run(), run(item_tree=None) or run(item_tree=tree)
RunWithItemTree ==
  /\ trees_built < MaxTrees
  /\ \E kwargs \in ItemTreeKwargs : RunWith(kwargs)

\* run() has returned or raised, and the caller is about to call it again on
\* the same Batcher.
CallAgain ==
  /\ pc = "done"
  /\ pc' = "idle"
  /\ idx' = 0
  /\ exc' = NoError
  /\ eff' = NoEffects
  /\ UNCHANGED << attrVars, actionVars, cfg, items, should_stop, engineVars,
                  itemVars, result >>

NextTrees ==
  \/ RunWithItemTree
  \/ SetupContents
  \/ BeforeProcessItems
  \/ NextItem
  \/ ProcessItem
  \/ BeginExport
  \/ AfterProcessItem
  \/ AfterProcessItems
  \/ CleanupContents
  \/ Stop
  \/ CallAgain

SpecTrees == InitTrees /\ [][NextTrees]_vars

(* ------------- runs with settings changed while they progress ---------- *)

\* The user changes the 'enabled' value of a configured action while the run
\* shows the text for the first item (edit mode: update_text at the top of
\* the iteration, after the item was taken from the tree).
SetEnabledBeforeItem ==
  /\ pc = "process_item"
  /\ idx = 1
  /\ cfg.edit_mode
  /\ \/ \E i \in DOMAIN procedures :
          /\ procedures' = [procedures EXCEPT ![i].enabled = ~@]
          /\ constraints' = constraints
     \/ \E i \in DOMAIN constraints :
          /\ constraints' = [constraints EXCEPT ![i].enabled = ~@]
          /\ procedures' = procedures
  /\ UNCHANGED << attrVars, invoker, invoked, filter, subfilters, cfg, pc, idx, items,
                  should_stop,
                  engineVars, itemVars, exc, eff, result >>

NextProgress ==
  \/ NextRuns
  \/ SetEnabledBeforeItem

SpecProgress == InitRuns /\ [][NextProgress]_vars

(* ---------------- file_formats: the options of a file format ----------- *)

\* FILE_FORMATS: the file formats of the model, each with its file
\* extensions and the name of its export procedure (none has an import
\* procedure name).
FILE_FORMATS ==
  << [file_extensions |-> << "heif", "heic" >>,
      import_procedure_name |-> "None", export_procedure_name |-> "file-heif-export"],
     [file_extensions |-> << "jpg", "jpeg", "jpe" >>,
      import_procedure_name |-> "None", export_procedure_name |-> "file-jpeg-export"],
     [file_extensions |-> << "png" >>,
      import_procedure_name |-> "None", export_procedure_name |-> "file-png-export"] >>

\* The file extensions of all formats.
KnownExtensions ==
  UNION { { FILE_FORMATS[k].file_extensions[i] :
              i \in DOMAIN FILE_FORMATS[k].file_extensions } : k \in DOMAIN FILE_FORMATS }

\* The first format that has the extension.
FormatOf(file_extension) ==
  LET having == { k \in DOMAIN FILE_FORMATS :
                    \E i \in DOMAIN FILE_FORMATS[k].file_extensions :
                      FILE_FORMATS[k].file_extensions[i] = file_extension }
  IN FILE_FORMATS[CHOOSE k \in having : \A j \in having : k <= j]

\* _create_file_formats_dict: (file extension, format) pairs.
FILE_FORMATS_DICT == [e \in KnownExtensions |-> FormatOf(e)]

\* _create_file_format_aliases: (file extension, first file extension of the
\* format) pairs.
FILE_FORMAT_ALIASES == [e \in KnownExtensions |-> FormatOf(e).file_extensions[1]]

\* The export procedures the host has registered: the one of HEIF is missing.
\* Each with the names of its arguments after the common ones.
PdbFileProcedures ==
  [p \in {"file-jpeg-export", "file-png-export"} |->
     IF p = "file-jpeg-export" THEN << "quality", "sub-sampling" >>
     ELSE << "interlaced" >>]

\* str.replace('-', '_') on the names of the model.
ReplaceHyphens(name) ==
  IF name = "sub-sampling" THEN "sub_sampling" ELSE name

\* create_file_format_options_settings: the group of settings made from the
\* arguments of the procedure, each with its default value.
create_file_format_options_settings(pdb_proc_name) ==
  [names |-> PdbFileProcedures[pdb_proc_name], values |-> "default"]

\* The keyword arguments made from a group of settings.
OptionsAsKwargs(options_settings) ==
  [names |-> [i \in DOMAIN options_settings.names |->
                ReplaceHyphens(options_settings.names[i])],
   values |-> options_settings.values]

\* What the caller asks the options for, and for which direction.
RequestedFormats == KnownExtensions \cup {"xyz", "None"}
Directions == {"import", "export", "save"}

\* fill_file_format_options: the options after the call, and whether it has
\* raised ValueError.
fill_file_format_options(options, file_format, import_or_export) ==
  LET processed_file_format ==
        IF file_format \in DOMAIN FILE_FORMAT_ALIASES
          THEN FILE_FORMAT_ALIASES[file_format] ELSE file_format
  IN IF \/ processed_file_format = "None"
        \/ processed_file_format \in DOMAIN options
        \/ processed_file_format \notin DOMAIN FILE_FORMATS_DICT
       THEN [raised |-> FALSE, options |-> options]
       ELSE IF import_or_export \notin {"import", "export"}
         THEN [raised |-> TRUE, options |-> options]
         ELSE LET pdb_proc_name ==
                    IF import_or_export = "import"
                      THEN FILE_FORMATS_DICT[processed_file_format].import_procedure_name
                      ELSE FILE_FORMATS_DICT[processed_file_format].export_procedure_name
              IN IF pdb_proc_name = "None" \/ pdb_proc_name \notin DOMAIN PdbFileProcedures
                   THEN [raised |-> FALSE, options |-> options]
                   ELSE [raised |-> FALSE,
                         options |->
                           [f \in DOMAIN options \cup {processed_file_format} |->
                              IF f = processed_file_format
                                THEN create_file_format_options_settings(pdb_proc_name)
                                ELSE options[f]]]

\* fill_and_get_file_format_options_as_kwargs(file_format_options,
\* file_format, import_or_export)
FillAndGet(file_format, import_or_export) ==
  /\ pc = "idle"
  /\ LET filled == fill_file_format_options(file_format_options, file_format,
                                            import_or_export)
         Return(value, kwargs) ==
           options_call' = [file_format |-> file_format,
                            import_or_export |-> import_or_export,
                            returned |-> value, kwargs |-> kwargs]
     IN /\ file_format_options' = filled.options
        /\ IF filled.raised
             THEN Return("ValueError", NoKwargs)
             ELSE IF file_format \in DOMAIN filled.options
               THEN Return("kwargs", OptionsAsKwargs(filled.options[file_format]))
               ELSE Return("None", NoKwargs)
  /\ UNCHANGED << overwrite_mode, overwrite_chooser, exported_layers, initial_invoker,
                  renamed_new, sources, plugin_version, update_call, temp_rules,
                  treeVars, progress, actionVars, cfg, pc, idx, items, should_stop,
                  engineVars, itemVars, exc, eff, result >>

\* The user gives an option of a format another value.
SetOptionValue ==
  /\ pc = "idle"
  /\ \E f \in DOMAIN file_format_options :
       /\ file_format_options[f].values = "default"
       /\ file_format_options' = [file_format_options EXCEPT ![f].values = "edited"]
  /\ UNCHANGED << overwrite_mode, overwrite_chooser, exported_layers, initial_invoker,
                  renamed_new, sources, plugin_version, update_call, temp_rules,
                  options_call,
                  treeVars, progress, actionVars, cfg, pc, idx, items, should_stop,
                  engineVars, itemVars, exc, eff, result >>

\* No options are stored yet.
InitOptions ==
  /\ sources = [n \in 1..Len(SourceNames) |-> SourceMissing]
  /\ plugin_version = PLUGIN_VERSION
  /\ update_call = NoUpdateCall
  /\ temp_rules = << >>
  /\ file_format_options = NoOptions
  /\ options_call = NoOptionsCall
  /\ IdleBatcher

NextOptions ==
  \/ \E file_format \in RequestedFormats, import_or_export \in Directions :
       FillAndGet(file_format, import_or_export)
  \/ SetOptionValue

SpecOptions == InitOptions /\ [][NextOptions]_vars

(* ------------------------- vocabulary of the claims -------------------- *)

SaysCancelled(message) ==
  MessageContains(message, "cancelled") \/ MessageContains(message, "canceled")

SaysCallingError(message) == MessageContains(message, "calling error")

NonInteractive(run_mode) == run_mode \in {RUN_NONINTERACTIVE, RUN_WITH_LAST_VALS}

\* The calls of the export function made by the r-th _export_item call for
\* the current item.
CallsOfRound(r) == SelectSeq(calls, LAMBDA c : c.round = r)

ExportErrorTypes == {"ExportError", "ExportCancelError", "InvalidOutputDirectoryError"}

SetupCompleted == eff.undo_freeze + eff.undo_group_start = 1

(* ------------------------------- C1 ------------------------------------ *)

\* C1: in every Batcher.run() with process_contents in which setup completed,
\* when run() has ended the 'cleanup_contents' group was invoked exactly once,
\* undo was thawed (or the undo group ended) exactly once, the context was
\* popped exactly once, and an exception raised by item processing is the
\* exception that reached the caller.
C1_CleanupOnceAndSameException ==
  (cfg.impl = "Batcher" /\ cfg.process_contents /\ pc = "done" /\ SetupCompleted) =>
    /\ eff.cleanup_contents = 1
    /\ eff.undo_thaw + eff.undo_group_end = 1
    /\ eff.context_pop = 1
    /\ (exc # NoError => result = Raised(exc))

(* ------------------------------- C2 ------------------------------------ *)

\* What C2 promises for the calls cs of one _export_item call (the r-th for
\* the item) whose first call failed with `calling error` under a
\* non-interactive run mode: a second call follows, it is made with
\* RUN_INTERACTIVE and the same output path, and if it succeeds there are
\* exactly two calls, the status returned is EXPORT_SUCCESSFUL and no export
\* error is raised.
RetriedInteractively(r, cs) ==
  /\ Len(cs) = 1 =>
        pc = "export_once" /\ attempt = [round |-> r, forced |-> TRUE] /\ exc = NoError
  /\ Len(cs) >= 2 =>
        /\ cs[2].run_mode = RUN_INTERACTIVE
        /\ cs[2].output_filepath = cs[1].output_filepath
  /\ (Len(cs) >= 2 /\ cs[2].outcome = <<>>) =>
        /\ Len(cs) = 2
        /\ Len(returned) = r
        /\ returned[r] = EXPORT_SUCCESSFUL
        /\ exc.type \notin ExportErrorTypes

\* C2 (amended): for an item whose overwrite decision is neither SKIP nor
\* CANCEL, if the first export call, made under RUN_NONINTERACTIVE or
\* RUN_WITH_LAST_VALS, fails with a message that contains 'calling error' and
\* neither 'cancelled' nor 'canceled', the export function is called a second
\* time with RUN_INTERACTIVE and the same output path; if that call
\* succeeds, the _export_item call made exactly two calls and ends with
\* EXPORT_SUCCESSFUL without raising.
C2_CallingErrorRetriedOnce ==
  \A r \in 1..2 :
    LET cs == CallsOfRound(r)
    IN (/\ Len(cs) >= 1
        /\ NonInteractive(cs[1].run_mode)
        /\ SaysCallingError(cs[1].outcome)
        /\ ~SaysCancelled(cs[1].outcome)) => RetriedInteractively(r, cs)

\* C2 as stated: any first failure whose message contains 'calling error'.
C2_AsStated ==
  \A r \in 1..2 :
    LET cs == CallsOfRound(r)
    IN (/\ Len(cs) >= 1
        /\ NonInteractive(cs[1].run_mode)
        /\ SaysCallingError(cs[1].outcome)) => RetriedInteractively(r, cs)

\* A call under RUN_WITH_LAST_VALS failed with `calling error`, the second
\* call succeeded and the export step of the item is finished.
C2_Witness ==
  /\ pc = "after_item"
  /\ Len(calls) = 2
  /\ calls[1].run_mode = RUN_WITH_LAST_VALS
  /\ SaysCallingError(calls[1].outcome)
  /\ calls[2].run_mode = RUN_INTERACTIVE
  /\ calls[2].outcome = <<>>
  /\ returned = <<EXPORT_SUCCESSFUL>>

(* ------------------------------- C3 ------------------------------------ *)

\* A failure of the export function that is neither a cancellation nor a
\* `calling error` under a non-interactive run mode.
PlainFailure(c) ==
  /\ c.outcome # <<>>
  /\ ~SaysCancelled(c.outcome)
  /\ ~(SaysCallingError(c.outcome) /\ NonInteractive(c.run_mode))

\* C3: when the export of an item with an extension X other than the default
\* extension fails (no cancellation, no retryable calling error), X is marked
\* is_valid = False, the item is renamed to the default extension and every
\* call of the retry is made with the default extension.
C3_FallbackToDefaultExtension ==
  \A i \in 1..Len(calls) :
    LET c == calls[i]
    IN (/\ c.round = 1
        /\ c.file_extension # default_file_extension
        /\ PlainFailure(c)) =>
         /\ ~file_extension_properties[ExtensionRecord(c.file_extension)].is_valid
         /\ get_file_extension(items[idx].name) = default_file_extension
         /\ \A j \in 1..Len(calls) :
              calls[j].round = 2 => calls[j].file_extension = default_file_extension

(* ------------------------------- C4 ------------------------------------ *)

\* The step is a call of the export function that fails with a message
\* containing 'cancelled' or 'canceled'.
CancelledCallStep ==
  /\ pc = "export_once"
  /\ Len(calls') = Len(calls) + 1
  /\ SaysCancelled(calls'[Len(calls')].outcome)

\* C4: whenever the export function fails with a message containing
\* 'cancelled' or 'canceled' in any letter case, the cancellation error with
\* that message is raised out of item processing by the same step: no further
\* call of the export function or of _export_item follows, the item is not
\* renamed and no is_valid or processed_count changes, whatever the run mode
\* and the extension are and even if the message contains 'calling error'.
C4_CancellationFirst ==
  [][CancelledCallStep =>
       /\ exc' = Error("ExportCancelError", calls'[Len(calls')].outcome, <<>>, "")
       /\ pc' = "cleanup"
       /\ file_extension_properties' = file_extension_properties
       /\ items' = items
       /\ attempt' = attempt
       /\ returned' = returned]_vars

\* The cancellation was raised for a message that also contains
\* 'calling error', under a non-interactive run mode and for an extension
\* other than the default one.
C4_Witness ==
  /\ pc = "cleanup"
  /\ exc.type = "ExportCancelError"
  /\ Len(calls) = 1
  /\ SaysCallingError(calls[1].outcome)
  /\ SaysCancelled(calls[1].outcome)
  /\ NonInteractive(calls[1].run_mode)
  /\ calls[1].file_extension # default_file_extension

(* ------------------------------- C5 ------------------------------------ *)

\* What C5 promises for the calls cs of an _export_item call whose forced
\* second call failed: the export error for the item is raised and the
\* failed call is the last call made for the item.
FatalAfterForcedRetry(cs) ==
  /\ exc = Error("ExportError", cs[2].outcome, items[idx].orig_name, default_file_extension)
  /\ pc = "cleanup"
  /\ Len(cs) = 2
  /\ calls[Len(calls)] = cs[2]

ForcedRetryFailed(cs) ==
  /\ Len(cs) >= 2
  /\ NonInteractive(cs[1].run_mode)
  /\ SaysCallingError(cs[1].outcome)
  /\ cs[2].outcome # <<>>
  /\ ~SaysCancelled(cs[2].outcome)

\* C5 (amended): if an export attempt of an item whose extension is the
\* default extension fails with a 'calling error' under RUN_WITH_LAST_VALS or
\* RUN_NONINTERACTIVE and the forced retry under RUN_INTERACTIVE also fails
\* with a message that is not a cancellation, the export error for that item
\* is raised and no further export attempt is made for it.
C5_ForcedRetryFailureIsFatal ==
  \A r \in 1..2 :
    LET cs == CallsOfRound(r)
    IN (ForcedRetryFailed(cs) /\ cs[2].file_extension = default_file_extension)
         => FatalAfterForcedRetry(cs)

\* C5 as stated: whatever the extension of the item is.
C5_AsStated ==
  LET cs == CallsOfRound(1)
  IN ForcedRetryFailed(cs) => FatalAfterForcedRetry(cs)

\* Both calls failed with `calling error`, the first under
\* RUN_NONINTERACTIVE, for an item with the default extension.
C5_Witness ==
  /\ pc = "cleanup"
  /\ exc.type = "ExportError"
  /\ Len(calls) = 2
  /\ calls[1].run_mode = RUN_NONINTERACTIVE
  /\ SaysCallingError(calls[1].outcome)
  /\ calls[2].run_mode = RUN_INTERACTIVE
  /\ SaysCallingError(calls[2].outcome)
  /\ calls[2].file_extension = default_file_extension

(* ------------------------------- C6 ------------------------------------ *)

\* The export function failed with `calling error` under a non-interactive
\* run mode (status FORCE_INTERACTIVE).
WrongRunModeFailure(c) ==
  /\ SaysCallingError(c.outcome)
  /\ ~SaysCancelled(c.outcome)
  /\ NonInteractive(c.run_mode)

\* The export function failed for an extension other than the default one
\* (status USE_DEFAULT_FILE_EXTENSION).
WrongExtensionFailure(c) ==
  PlainFailure(c) /\ c.file_extension # default_file_extension

\* C6: for one item, a wrong-run-mode failure is followed by exactly one
\* more call in the same _export_item call, made with RUN_INTERACTIVE; a
\* wrong-extension failure is followed by exactly one more _export_item
\* call, made for the item under the default extension; when the last call
\* succeeded no export error is raised; and at most four calls of the export
\* function are made for the item.
C6_EachRetriedOnce ==
  /\ \A r \in 1..2 :
       LET cs == CallsOfRound(r)
       IN /\ Len(cs) <= 2
          /\ (Len(cs) >= 1 /\ WrongRunModeFailure(cs[1])) =>
                IF Len(cs) = 1
                  THEN pc = "export_once" /\ attempt = [round |-> r, forced |-> TRUE]
                  ELSE cs[2].run_mode = RUN_INTERACTIVE
  /\ \A i \in 1..Len(calls) :
       (calls[i].round = 1 /\ WrongExtensionFailure(calls[i])) =>
         /\ attempt.round = 2
         /\ i = Len(CallsOfRound(1))
         /\ get_file_extension(items[idx].name) = default_file_extension
         /\ \A j \in 1..Len(calls) :
              calls[j].round = 2 => calls[j].file_extension = default_file_extension
  /\ (calls # <<>> /\ calls[Len(calls)].outcome = <<>>) =>
       /\ returned[Len(returned)] = EXPORT_SUCCESSFUL
       /\ exc.type \notin ExportErrorTypes
  /\ Len(calls) <= 4

(* ------------------------------- C7 ------------------------------------ *)

\* The step is a call of the export function, for an item whose extension is
\* the default one, that fails without being a cancellation or a
\* `calling error` under a non-interactive run mode.
FatalCallStep ==
  /\ pc = "export_once"
  /\ Len(calls') = Len(calls) + 1
  /\ PlainFailure(calls'[Len(calls')])
  /\ calls'[Len(calls')].file_extension = default_file_extension

\* C7: such a failure raises the export error carrying the message, the name
\* of the item and the extension; no further call is made for the item,
\* no is_valid changes, and once the error is raised no item is processed or
\* exported any more: the run goes to its cleanup and ends.
C7_FatalExportError ==
  [][/\ FatalCallStep =>
          /\ exc' = Error("ExportError", calls'[Len(calls')].outcome,
                          items[idx].orig_name,
                          calls'[Len(calls')].file_extension)
          /\ pc' = "cleanup"
          /\ file_extension_properties' = file_extension_properties
          /\ items' = items
     /\ exc.type = "ExportError" =>
          /\ pc = "cleanup"
          /\ idx' = idx
          /\ files' = files
          /\ calls' \in {calls, <<>>}
          /\ pc' \in {"cleanup", "done"}]_vars

\* The export error was raised for the second item after the first one had
\* been exported; it carries the message and the raw name of the second item.
C7_Witness ==
  /\ pc = "cleanup"
  /\ idx = 2
  /\ exc = Error("ExportError", <<"Calling Error">>, ItemName(2), default_file_extension)
  /\ Len(calls) = 1
  /\ calls[1].run_mode = RUN_INTERACTIVE

(* ------------------------------- C8 ------------------------------------ *)

ProcessedCounts ==
  [r \in ExtensionRecords |-> file_extension_properties[r].processed_count]

\* The step is a call of the export function that is not the forced retry.
FirstAttemptStep ==
  /\ pc = "export_once"
  /\ ~attempt.forced
  /\ Len(calls') = Len(calls) + 1

\* The step ends the processing of an item whose last export call succeeded.
ExportedItemDoneStep ==
  /\ pc = "after_item"
  /\ pc' = "loop"
  /\ calls # <<>>
  /\ calls[Len(calls)].outcome = <<>>

\* C8: every export call that is not the forced retry is made for the
\* extension of the item's name, with RUN_WITH_LAST_VALS exactly when the
\* record of that extension has is_valid = True and processed_count > 0 and
\* with initial_run_mode otherwise.  An item that was exported leaves the
\* processed_count of its extension positive, and within a run no
\* processed_count decreases and no is_valid turns True again: so, whatever
\* initial_run_mode is, later items of a valid extension that was exported
\* are first attempted with RUN_WITH_LAST_VALS.
C8_RunModeSelection ==
  [][/\ FirstAttemptStep =>
          LET c == calls'[Len(calls')]
              record == file_extension_properties[ExtensionRecord(c.file_extension)]
          IN /\ c.file_extension = get_file_extension(items[idx].name)
             /\ c.run_mode = IF record.is_valid /\ record.processed_count > 0
                                THEN RUN_WITH_LAST_VALS
                                ELSE cfg.initial_run_mode
     /\ ExportedItemDoneStep =>
          file_extension_properties'[
            ExtensionRecord(calls[Len(calls)].file_extension)].processed_count > 0
     /\ pc # "idle" =>
          \A r \in ExtensionRecords :
            /\ file_extension_properties'[r].processed_count
                 >= file_extension_properties[r].processed_count
            /\ file_extension_properties'[r].is_valid
                 => file_extension_properties[r].is_valid]_vars

\* With initial_run_mode = RUN_INTERACTIVE the second item, of the extension
\* the first item was exported with, is first attempted with
\* RUN_WITH_LAST_VALS.
C8_Witness ==
  /\ cfg.initial_run_mode = RUN_INTERACTIVE
  /\ idx = 2
  /\ Len(calls) = 1
  /\ calls[1].run_mode = RUN_WITH_LAST_VALS
  /\ calls[1].file_extension = default_file_extension
  /\ file_extension_properties[ExtensionRecord(default_file_extension)].processed_count = 1

(* ------------------------------- C9 ------------------------------------ *)

\* The step that ends the export step of the current item: the return of the
\* export procedure in export.py, the end of _process_and_export_item in
\* LayerExporter.  LastDecision is the overwrite decision of the last
\* _export_item call made for the item.
ExportStepDoneStep ==
  IF cfg.impl = "Batcher"
    THEN pc \in {"export_item", "export_once"} /\ pc' = "after_item"
    ELSE pc = "after_item" /\ pc' = "loop"

LastDecision ==
  IF cfg.impl = "Batcher" THEN decisions'[Len(decisions')] ELSE decisions[Len(decisions)]

\* C9 (amended): in every _export_item call whose overwrite decision is
\* SKIP the export function is not called and no directory is created; the
\* processed_count records change only when the export step of an item
\* completes: not at all if the last decision for the item was SKIP,
\* otherwise the count of the item's final extension increases by exactly 1
\* and no other count changes.
C9_SkipAndProcessedCount ==
  /\ [](\A r \in 1..Len(decisions) : decisions[r] = "SKIP" => CallsOfRound(r) = <<>>)
  /\ [][/\ (pc = "export_item" /\ decisions' = Append(decisions, "SKIP")) =>
             (dirs' = dirs /\ calls' = calls)
        /\ (pc # "idle" /\ ~ExportStepDoneStep) =>
             ProcessedCounts' = ProcessedCounts
        /\ (pc # "idle" /\ ExportStepDoneStep) =>
             ProcessedCounts' =
               IF LastDecision = "SKIP"
                 THEN ProcessedCounts
                 ELSE [ProcessedCounts EXCEPT
                         ![ExtensionRecord(get_file_extension(items'[idx].name))] = @ + 1]
       ]_vars

\* C9 as stated, first sentence: when an overwrite decision for the item is
\* SKIP, the export function was not called and no directory was created for
\* the item.
C9_AsStated ==
  (\E r \in 1..Len(decisions) : decisions[r] = "SKIP") => (calls = <<>> /\ dirs = 0)

\* The export step of an item ended with the decision SKIP, after a first
\* _export_item call that created the directory and called the export
\* function; no processed_count has changed.
C9_Witness ==
  /\ pc = "after_item"
  /\ idx = 1
  /\ Len(decisions) = 2
  /\ decisions[2] = "SKIP"
  /\ dirs = 1
  /\ Len(calls) = 1
  /\ \A r \in ExtensionRecords : ProcessedCounts[r] = 0

(* ------------------------------- C10 ----------------------------------- *)

ChooserCancelError == Error("ExportCancelError", <<"cancelled">>, <<>>, "")

ItemPcs == {"process_item", "export", "export_item", "export_once", "after_item"}

StoppedByUser == Error("CancelError", <<"stopped by user">>, <<>>, "")

\* The steps of a run in which stop() was called: the call of stop() changes
\* nothing but the flag; the item in progress goes on to its end (or fails on
\* its own); at the head of the loop no later item is started, the
\* cancellation error is raised instead; after it only the cleanup follows.
StopSteps ==
  /\ (~should_stop /\ should_stop') =>
       UNCHANGED << pc, idx, items, engineVars, itemVars, exc, eff, result >>
  /\ (should_stop /\ pc \in ItemPcs) =>
       \/ pc' \in ItemPcs /\ idx' = idx /\ exc' = NoError
       \/ pc' = "loop" /\ idx' = idx + 1 /\ exc' = NoError
       \/ exc'.type \notin {"none", "CancelError"}
  /\ (should_stop /\ pc = "loop" /\ idx <= NumItems) =>
       /\ exc' = StoppedByUser
       /\ pc' \in {"cleanup", "done"}
       /\ idx' = idx
  /\ exc = StoppedByUser =>
       /\ pc' = "done"
       /\ idx' = idx
       /\ UNCHANGED engineVars

\* C11: when stop() is called while item i (not the last) is processed, item i
\* is processed to its end, nothing is invoked for a later item, and run()
\* raises the cancellation error; stop() does not interrupt the item in
\* progress.
C11_StopAfterCurrentItem ==
  /\ [](pc = "done" /\ exc = StoppedByUser => result = Raised(StoppedByUser))
  /\ [][StopSteps]_vars

\* The same run, where the error that reaches the caller is left open when an
\* action of the 'cleanup_contents' group raised.
C11_UpToCleanupError ==
  /\ [](pc = "done" /\ exc = StoppedByUser =>
          /\ result.state = "raised"
          /\ result.exc.type \in {"CancelError", "CleanupError"})
  /\ [][StopSteps]_vars

(* ------------------------------- C12 ----------------------------------- *)

\* The groups the run has invoked after the constraints were applied, each
\* with the item it was invoked for (0: for no item).
GroupsInvoked ==
  LET calls_made == SelectSeq(invoked, LAMBDA c : c.group # DEFAULT_CONSTRAINTS_GROUP)
  IN [k \in 1..Len(calls_made) |-> << calls_made[k].group, calls_made[k].item >>]

\* The items a group was invoked for, in tree order.
ItemsInvokedFor ==
  SelectSeq([i \in 1..NumItems |-> i],
            LAMBDA i : \E k \in 1..Len(invoked) : invoked[k].item = i)

\* The order of a whole run that invokes the groups of per_item for each of
\* the items given.
OrderOfRun(items_processed, per_item) ==
  LET n == Len(per_item)
      before == << << "before_process_items", 0 >>,
                   << "before_process_items_contents", 0 >> >>
      each == [k \in 1..(n * Len(items_processed)) |->
                 << per_item[((k - 1) % n) + 1], items_processed[((k - 1) \div n) + 1] >>]
      after == << << "after_process_items_contents", 0 >>,
                  << "after_process_items", 0 >> >>
  IN before \o each \o after

ItemGroupsAsStated ==
  << "before_process_item", "before_process_item_contents", DEFAULT_PROCEDURES_GROUP,
     "after_process_item_contents", "after_process_item" >>

\* The groups invoked only when the contents of the layers are processed.
ContentsGroups ==
  { "before_process_items_contents", "before_process_item_contents",
    "after_process_item_contents", "after_process_items_contents",
    "cleanup_contents" }

\* C12 as stated: when a run with process_contents has returned, the groups
\* were invoked in the order 'before_process_items',
\* 'before_process_items_contents', for each item in tree order
\* 'before_process_item', 'before_process_item_contents', the default
\* procedures group, 'after_process_item_contents', 'after_process_item', and
\* last 'after_process_items_contents', 'after_process_items'; without
\* process_contents no '*_contents' group is invoked.
C12_AsStated ==
  /\ (pc = "done" /\ result.state = "returned" /\ cfg.process_contents) =>
       GroupsInvoked = OrderOfRun(ItemsInvokedFor, ItemGroupsAsStated)
  /\ ~cfg.process_contents =>
       \A k \in 1..Len(invoked) : invoked[k].group \notin ContentsGroups

\* C12, amended: the order is the stated one in the runs that are no preview
\* or do not process names; in a preview that processes names each item has
\* 'before_process_item', the name-only group and 'after_process_item' invoked
\* first, and then the five groups of the stated order; without
\* process_contents no '*_contents' group is invoked.
C12_OrderOfGroups ==
  /\ (pc = "done" /\ result.state = "returned" /\ cfg.process_contents) =>
       GroupsInvoked =
         OrderOfRun(ItemsInvokedFor,
                    IF cfg.is_preview /\ cfg.process_names
                      THEN << "before_process_item", _NAME_ONLY_ACTION_GROUP,
                              "after_process_item" >> \o ItemGroupsAsStated
                      ELSE ItemGroupsAsStated)
  /\ ~cfg.process_contents =>
       \A k \in 1..Len(invoked) : invoked[k].group \notin ContentsGroups

\* A run with process_contents that is no preview has returned after it
\* processed every item.
C12_Witness ==
  /\ pc = "done"
  /\ result.state = "returned"
  /\ cfg.process_contents
  /\ ~cfg.is_preview
  /\ ItemsInvokedFor = [i \in 1..NumItems |-> i]
  /\ Len(GroupsInvoked) = 4 + 5 * NumItems

(* ------------------------------- C13 ----------------------------------- *)

\* The calls of the default procedures group the run has made.
DefaultGroupCalls ==
  SelectSeq(invoked, LAMBDA c : c.group = DEFAULT_PROCEDURES_GROUP)

IsDefault(action, function) == action.kind = "function" /\ action.function = function

\* The order of the actions one call of the default procedures group has run:
\* the set-current-layer action, the procedure of add_procedure(), the default
\* rename procedure if there is one, the configured procedures in the order of
\* the configuration, the default export procedure if there is one.
InFixedOrder(executed) ==
  LET n == Len(executed)
      first == IF n >= 3 /\ IsDefault(executed[3], "rename_layer") THEN 4 ELSE 3
      last == IF IsDefault(executed[n], "export") THEN n - 1 ELSE n
  IN /\ n >= 2
     /\ IsDefault(executed[1], "set_active_and_current_layer")
     /\ IsDefault(executed[2], "add_procedure")
     /\ \A k \in first..last : executed[k].kind = "procedure"
     /\ \A k \in first..(last - 1) : executed[k].index < executed[k + 1].index

\* The constraints among the actions a call has run.
ConstraintsAppliedBy(call) ==
  { call.executed[k] : k \in { j \in 1..Len(call.executed) :
                                 call.executed[j].kind = "constraint" } }

\* The constraints group is invoked by the first call of the run, before
\* setup and before any item, and by no other call.
ConstraintsGroupFirst ==
  invoked # << >> =>
    /\ invoked[1].group = DEFAULT_CONSTRAINTS_GROUP
    /\ invoked[1].item = 0
    /\ invoked[1].image = "input_image"
    /\ (cfg.process_contents /\ eff.context_push = 0) => Len(invoked) = 1
    /\ \A k \in 2..Len(invoked) : invoked[k].group # DEFAULT_CONSTRAINTS_GROUP

JustInstalled == pc \in {"setup", "before_items"}

\* The default procedure with the function is among the actions of the group.
DefaultInstalled(function, group) ==
  \E k \in 1..Len(invoker[group]) : IsDefault(invoker[group][k], function)

\* The configuration holds a procedure of the name.
Supplied(orig_name) ==
  \E i \in 1..Len(procedures) : procedures[i].orig_name = orig_name

\* The configuration holds a procedure of the name that is enabled.
SuppliedEnabled(orig_name) ==
  \E i \in 1..Len(procedures) :
    procedures[i].orig_name = orig_name /\ procedures[i].enabled

\* C14 as stated: the default rename procedure is installed only if the
\* configuration supplies no rename procedure, the default export procedure
\* only if it supplies no export procedure.
C14_AsStated ==
  JustInstalled =>
    \A g \in {DEFAULT_PROCEDURES_GROUP, _NAME_ONLY_ACTION_GROUP} :
      /\ DefaultInstalled("rename_layer", g) => ~Supplied("rename")
      /\ DefaultInstalled("export", g) => ~Supplied("export")

\* C14, amended: the default rename procedure is installed exactly when the
\* run does not edit the image in place and the configuration holds no rename
\* procedure that is enabled when the actions are installed; the same for the
\* default export procedure and the export procedures of the configuration.
C14_DefaultUnlessEnabledSupplied ==
  JustInstalled =>
    \A g \in {DEFAULT_PROCEDURES_GROUP, _NAME_ONLY_ACTION_GROUP} :
      /\ DefaultInstalled("rename_layer", g) <=>
           (~cfg.edit_mode /\ ~SuppliedEnabled("rename"))
      /\ DefaultInstalled("export", g) <=>
           (~cfg.edit_mode /\ ~SuppliedEnabled("export"))

\* The actions were installed for a configuration with an enabled export
\* procedure and no rename procedure: the default rename procedure is
\* installed, the default export procedure is not.
C14_Witness ==
  /\ JustInstalled
  /\ SuppliedEnabled("export")
  /\ ~Supplied("rename")
  /\ DefaultInstalled("rename_layer", DEFAULT_PROCEDURES_GROUP)
  /\ ~DefaultInstalled("export", DEFAULT_PROCEDURES_GROUP)

(* ------------------------------- C15 ----------------------------------- *)

\* The calls of Invoker.invoke a step adds to the log of the run.
NewCalls == SubSeq(invoked', Len(invoked) + 1, Len(invoked'))

\* The rules a step adds to the filter.
NewRules == SubSeq(filter', Len(filter) + 1, Len(filter'))

\* What the claim says of one call: an installed action made from a setting
\* has run exactly if its 'enabled' value was true at the call and, in a
\* preview, its 'enabled_for_previews' value as well.
RunsExactlyTheEnabled(call) ==
  \A k \in 1..Len(invoker'[call.group]) :
    LET action == invoker'[call.group][k]
        setting == SettingOf(action)
    IN action.kind \in {"procedure", "constraint"} =>
         ((\E j \in 1..Len(call.executed) : call.executed[j] = action) <=>
            (setting.enabled /\ (cfg.is_preview => setting.enabled_for_previews)))

\* C15: at every invocation of an action installed from the configuration,
\* its function is executed exactly when 'enabled' is true at that time (and,
\* when is_preview is true, 'enabled_for_previews' too); otherwise it is not
\* called: a constraint that is not executed adds no rule to the filter.
C15_ExecutedIffEnabled ==
  [][/\ \A k \in 1..Len(NewCalls) : RunsExactlyTheEnabled(NewCalls[k])
     /\ \A r \in 1..Len(NewRules) :
          \E k \in 1..Len(NewCalls) :
            \E a \in ConstraintsAppliedBy(NewCalls[k]) :
              /\ a.function = NewRules[r]
              /\ constraints[a.index].enabled
              /\ cfg.is_preview => constraints[a.index].enabled_for_previews
     /\ NewCalls = << >> => filter' = filter]_vars

\* In a preview, a call of the default procedures group has left out a
\* configured procedure that is enabled, but not for previews, and has run
\* another one.
C15_Witness ==
  /\ cfg.is_preview
  /\ \E k \in 1..Len(DefaultGroupCalls) :
       LET executed == DefaultGroupCalls[k].executed
       IN /\ \E j \in 1..Len(executed) : executed[j].kind = "procedure"
          /\ \E i \in 1..Len(procedures) :
               /\ procedures[i].enabled
               /\ ~procedures[i].enabled_for_previews
               /\ \A j \in 1..Len(executed) :
                    executed[j].kind = "procedure" => executed[j].index # i

(* ------------------------------- C16 ----------------------------------- *)

\* The items matched by the constraints the run has applied (those the call
\* of the constraints group has run), in tree order.
MatchedItems ==
  LET applied == IF invoked = << >> THEN {} ELSE ConstraintsAppliedBy(invoked[1])
  IN SelectSeq([i \in 1..NumItems |-> i],
               LAMBDA i : \A a \in applied : ConstraintMatches(a.function, i))

\* The exports of the run: for each export procedure a call of the default
\* procedures group has run, the item of the call.
ExportsOf(calls_made) ==
  LET exporting(call) ==
        SelectSeq(call.executed, LAMBDA a : a.function = "export")
      F[k \in 0..Len(calls_made)] ==
        IF k = 0 THEN << >>
        ELSE F[k - 1] \o [j \in 1..Len(exporting(calls_made[k])) |-> calls_made[k].item]
  IN F[Len(calls_made)]

\* The sum of processed_count over the file-format records.
SumOfProcessedCounts ==
  LET F[records \in SUBSET ExtensionRecords] ==
        IF records = {} THEN 0
        ELSE LET r == CHOOSE r \in records : TRUE
             IN ProcessedCounts[r] + F[records \ {r}]
  IN F[ExtensionRecords]

\* A run that exports with one export procedure, the default one, has
\* returned; no export of it was skipped or failed.
ExportingRunReturned ==
  /\ pc = "done"
  /\ result.state = "returned"
  /\ cfg.process_contents /\ cfg.process_export /\ ~cfg.edit_mode
  /\ ~Supplied("export")

NamesMissingPdbProcedure ==
  \E i \in 1..Len(procedures) :
    procedures[i].is_pdb_procedure /\ procedures[i].function \notin PdbProcedures

\* C20: when a configured PDB procedure does not exist, run() raises
\* InvalidPdbProcedureError while the actions are installed: no image copy is
\* created, no context is pushed, no group is invoked and no item is
\* processed, and nothing happens after the error.
C20_InvalidPdbProcedureRaisedAtInstall ==
  (NamesMissingPdbProcedure /\ pc # "idle") =>
    /\ pc = "done"
    /\ result.state = "raised"
    /\ result.exc.type = "InvalidPdbProcedureError"
    /\ eff = NoEffects
    /\ invoked = << >>
    /\ filter = << >>
    /\ idx = 0
    /\ file_extension_properties = NewFileExtensionProperties

\* run() has raised for a configuration whose second procedure, a disabled
\* one, names a PDB procedure that does not exist.
C20_Witness ==
  /\ pc = "done"
  /\ result.exc.type = "InvalidPdbProcedureError"
  /\ Len(procedures) = 2
  /\ procedures[2].function \notin PdbProcedures
  /\ ~procedures[2].enabled
  /\ ~InvalidPdbProcedure(<< procedures[1] >>)

(* ------------------------------- C19 ----------------------------------- *)

\* The calls that invoke procedures for an item: those of the name-only group
\* and of the default procedures group.
ProcedureCalls ==
  SelectSeq(invoked,
            LAMBDA c : c.group \in {_NAME_ONLY_ACTION_GROUP, DEFAULT_PROCEDURES_GROUP})

C17_ImageCopyReturnedOrDeleted ==
  (cfg.impl = "Batcher" /\ pc = "done") =>
    /\ (result.state = "returned" /\ result.image_copy) =>
         (cfg.process_contents /\ cfg.keep_image_copy /\ exc = NoError)
    /\ (eff.image_copy_created = 1
          /\ (~cfg.keep_image_copy \/ result.state = "raised")) =>
         eff.image_copy_deleted = 1

\* The same, leaving open whether the image copy was deleted when an action
\* of the 'cleanup_contents' group raised.
C17_UnlessCleanupActionRaised ==
  (cfg.impl = "Batcher" /\ pc = "done") =>
    /\ (result.state = "returned" /\ result.image_copy) =>
         (cfg.process_contents /\ cfg.keep_image_copy /\ exc = NoError)
    /\ (eff.image_copy_created = 1
          /\ (~cfg.keep_image_copy \/ result.state = "raised")
          /\ result.exc.type # "CleanupError") =>
         eff.image_copy_deleted = 1

(* ------------------------------- C18 ----------------------------------- *)

\* C18: when an exporting Batcher.run(keep_image_copy=True) has returned
\* without having exported a layer (the constraints matched no item), it has
\* returned None and the image copy is deleted.
C18_NoneWhenNothingExported ==
  (/\ pc = "done"
   /\ result.state = "returned"
   /\ cfg.keep_image_copy
   /\ cfg.process_contents /\ cfg.process_export /\ ~cfg.edit_mode
   /\ ExportsOf(DefaultGroupCalls) = << >>) =>
    /\ ~result.image_copy
    /\ eff.image_copy_deleted = eff.image_copy_created

(* ------------------------------- C21 ----------------------------------- *)

\* _make_dirs has failed for the current item: the error it raises is the
\* pending exception of the run.
MakeDirsFailed == exc.type = "InvalidOutputDirectoryError"

C22_SkipActionDoesNotAbortRun ==
  /\ exc.type # "SkipAction"
  /\ result.exc.type # "SkipAction"

(* ------------------------------- C23 ----------------------------------- *)

\* The item iteration of a run is about to start: the constraints were
\* applied, no item was taken from the tree yet.
AtStartOfItemIteration ==
  \/ pc \in {"setup", "before_items"}
  \/ pc = "loop" /\ idx = 0

\* The rules the enabled constraints of the run add, in the order of the
\* constraints.
RulesOfEnabledConstraints ==
  LET enabled == SelectSeq(constraints,
                           LAMBDA c : IF cfg.is_preview
                                        THEN c.enabled /\ c.enabled_for_previews
                                        ELSE c.enabled)
  IN [k \in 1..Len(enabled) |-> enabled[k].function]

\* C23: in every run of a sequence of runs that reuse the item tree, at the
\* start of the item iteration the filter of the tree holds exactly the rules
\* added by the enabled constraints of that run, and none left by an earlier
\* run.
C23_FilterHoldsOnlyRulesOfThisRun ==
  AtStartOfItemIteration => filter = RulesOfEnabledConstraints

\* A run that follows a run which has returned is at the start of its item
\* iteration with no enabled constraint.
C23_Witness ==
  /\ result.state = "returned"
  /\ pc = "loop" /\ idx = 0
  /\ constraints # << >>
  /\ filter = << >>

(* ------------------------------- C24 ----------------------------------- *)

\* C24: in a run(overwrite_mode=M) of a Batcher made without an overwrite
\* chooser, every file conflict of the run is resolved with M: whenever the
\* chooser was asked about a file that exists, it was a non-interactive
\* chooser with the overwrite mode of the run, and it answered with that mode.
C24_ConflictsResolvedWithModeOfRun ==
  \A k \in 1..Len(decisions) :
    decisions[k] # "DO_NOTHING" =>
      /\ ~overwrite_chooser.interactive
      /\ overwrite_chooser.overwrite_mode = overwrite_mode
      /\ decisions[k] = overwrite_mode

(* ------------------------------- C25 ----------------------------------- *)

\* The current layer was written to a file: a call of the export function
\* made for it has succeeded.
ExportedToFile ==
  \E k \in 1..Len(calls) : calls[k].outcome = << >>

\* C25: exported_layers is emptied when export() starts, and when the
\* processing of a layer ends the layer is appended to it exactly if the
\* layer was successfully exported to a file (not if it was skipped and not
\* if no export was performed for it); nothing else changes the list.
C25_ExportedLayersAreTheExported ==
  [][/\ (pc = "idle" /\ pc' # "idle") => exported_layers' = << >>
     /\ (pc = "after_item" /\ pc' = "loop") =>
          exported_layers' = IF ExportedToFile
                               THEN Append(exported_layers, idx)
                               ELSE exported_layers
     /\ (pc # "idle" /\ ~(pc = "after_item" /\ pc' = "loop")) =>
          exported_layers' = exported_layers
    ]_vars

(* ------------------------------- C26 ----------------------------------- *)

\* `processing_groups=[]`
EmptyProcessingGroups == [is_none |-> FALSE, groups |-> {}]

\* C26: export(processing_groups=[]) performs a normal export, as
\* export(processing_groups=None) does: once export() has started, the groups
\* 'layer_contents', 'layer_name' and 'export' are all active, and a layer
\* whose processing is about to end was named and the overwrite handling of
\* its export has taken place.
C26_EmptyListIsNormalExport ==
  (cfg.processing_groups = EmptyProcessingGroups /\ pc # "idle") =>
    /\ _default_processing_groups
         \subseteq _enable_disable_processing_groups(cfg.processing_groups)
    /\ cfg.process_contents /\ cfg.process_names /\ cfg.process_export
    /\ pc = "after_item" =>
         /\ decisions # << >>
         /\ items[idx].name # items[idx].orig_name

(* ------------------------------- C27 ----------------------------------- *)

\* The call of Invoker.invoke has run the procedure.
HasRun(call, function) ==
  \E j \in 1..Len(call.executed) : IsDefault(call.executed[j], function)

\* The initial invoker holds the procedure in the group.
AddedToGroup(function, group) ==
  /\ group \in list_groups(initial_invoker)
  /\ \E k \in 1..Len(initial_invoker[group]) :
       initial_invoker[group][k] = Added(function)

\* C27: a procedure added with add_procedure() while run() is in progress (P2,
\* added during the first run of the Batcher) is not invoked by any call that
\* run makes, whatever the item; a later run() invokes it with the group it
\* was added to.
C27_AddedDuringRunWaitsForNextRun ==
  [][\A k \in 1..Len(NewCalls) :
       IF result.state = "none"
         THEN ~HasRun(NewCalls[k], "P2")
         ELSE AddedToGroup("P2", NewCalls[k].group) => HasRun(NewCalls[k], "P2")]_vars

(* ------------------------------- C28 ----------------------------------- *)

\* The procedures of add_procedure() in the order in which they are
\* registered in the group.
RegisteredOrder(group) ==
  IF group \in DOMAIN initial_invoker' THEN initial_invoker'[group] ELSE << >>

\* The procedures of add_procedure() a call has run, in the order of the call.
AddedProceduresRun(call) ==
  SelectSeq(call.executed, LAMBDA a : a.function \in AddedProcedures)

\* The step has changed the list of the group by a reorder: the same actions
\* in another order.
ReorderedIn(group) ==
  /\ group \in DOMAIN initial_invoker
  /\ Len(initial_invoker'[group]) = Len(initial_invoker[group])
  /\ initial_invoker'[group] # initial_invoker[group]

\* The step has removed an action from the list of the group.
RemovedIn(group) ==
  /\ group \in DOMAIN initial_invoker
  /\ Len(initial_invoker'[group]) = Len(initial_invoker[group]) - 1

\* One action has moved and the others have kept their order.
OneMoved(before, after) ==
  \E k \in 1..Len(before) :
    \E m \in 1..Len(after) :
      /\ after[m] = before[k]
      /\ Without(after, m) = Without(before, k)

\* C28: invoke() calls the entries of a group in registration order as
\* modified by reorder and remove: a reorder moves one entry and keeps the
\* order of the others (reorder(P2, 0) makes P2, P1, P3 of P1, P2, P3), a
\* remove takes one entry out and keeps the order of the others, each
\* of them leaves the list of every other group as it was, and every call the
\* run makes for a group runs the procedures in the order of its list.
C28_InvokedInRegistrationOrder ==
  [][/\ \A g \in DOMAIN initial_invoker :
          /\ ReorderedIn(g) => OneMoved(initial_invoker[g], initial_invoker'[g])
          /\ initial_invoker[g] = << Added("P1"), Added("P2"), Added("P3") >> =>
               InvokerReorder(initial_invoker, "P2", g, 0)[g] =
                 << Added("P2"), Added("P1"), Added("P3") >>
          /\ RemovedIn(g) =>
               \E k \in 1..Len(initial_invoker[g]) :
                 initial_invoker'[g] = Without(initial_invoker[g], k)
          /\ (ReorderedIn(g) \/ RemovedIn(g)) =>
               \A h \in DOMAIN initial_invoker \ {g} :
                 initial_invoker'[h] = initial_invoker[h]
     /\ \A k \in 1..Len(NewCalls) :
          AddedProceduresRun(NewCalls[k]) = RegisteredOrder(NewCalls[k].group)]_vars

\* The run has invoked the default procedures group, which holds P2, P1, P3 in
\* this order while the other group holds them in the order they were added
\* in, and has run them in the order P2, P1, P3.
C28_Witness ==
  /\ pc = "done"
  /\ DEFAULT_PROCEDURES_GROUP \in DOMAIN initial_invoker
  /\ "after_process_items" \in DOMAIN initial_invoker
  /\ initial_invoker[DEFAULT_PROCEDURES_GROUP] =
       << Added("P2"), Added("P1"), Added("P3") >>
  /\ initial_invoker["after_process_items"] =
       << Added("P1"), Added("P2"), Added("P3") >>
  /\ \E k \in 1..Len(invoked) :
       /\ invoked[k].group = DEFAULT_PROCEDURES_GROUP
       /\ SelectSeq(invoked[k].executed, LAMBDA a : a.function \in AddedProcedures) =
            << Added("P2"), Added("P1"), Added("P3") >>

(* ------------------------------- C29 ----------------------------------- *)

\* The filter of the item tree holds no rule, in a subfilter or not.
ZeroRules ==
  /\ filter = << >>
  /\ \A n \in DOMAIN subfilters : subfilters[n] = << >>

\* No constraint of the configuration is enabled.
NoEnabledConstraint ==
  \A i \in DOMAIN constraints : ~constraints[i].enabled

\* The filter holds, not in a subfilter, a rule that accepts no item.
HoldsAlwaysFalseRule ==
  \E k \in 1..Len(filter) :
    \A i \in 1..NumItems : ~ConstraintMatches(filter[k], i)

\* The loop of _process_items takes the next item of the tree, or ends after
\* the last one.
TakesEveryItem ==
  /\ pc' = "process_item" => idx' = idx + 1
  /\ pc' = "after_items" => idx = NumItems

\* C29: a filter with zero rules matches every candidate, so that a run with
\* no enabled constraint has a filter without rules and its loop takes every
\* item of the tree in turn; a MATCH_ALL filter that holds one always-false
\* rule matches no candidate, whatever other rules or subfilters it holds: the
\* loop takes no item.
C29_EmptyFilterMatchesAllFalseRuleNone ==
  [][/\ (pc = "idle" /\ pc' # "done" /\ NoEnabledConstraint) => ZeroRules'
     /\ ZeroRules => \A i \in 1..NumItems : ItemMatches(i, filter)
     /\ (pc = "loop" /\ pc' # "loop" /\ ZeroRules) => TakesEveryItem
     /\ HoldsAlwaysFalseRule => \A i \in 1..NumItems : ~ItemMatches(i, filter)
     /\ (pc = "loop" /\ HoldsAlwaysFalseRule) => pc' # "process_item"]_vars

\* A run whose filter holds an always-false rule and another rule, and a
\* subfilter with a rule, has ended without taking an item.
C29_Witness ==
  /\ pc = "done"
  /\ result.state = "returned"
  /\ idx = 0
  /\ HoldsAlwaysFalseRule
  /\ Len(filter) = 2
  /\ \E n \in DOMAIN subfilters : subfilters[n] # << >>

(* ------------------------------- C30 ----------------------------------- *)

\* The name of the i-th item has been processed in this run.
NameProcessed(i) ==
  \/ i < idx
  \/ i = idx /\ pc \in {"export_item", "export_once", "after_item"}

ProcessedItems == { i \in 1..NumItems : NameProcessed(i) }

\* The names name processing makes of the name of the i-th layer before it
\* makes them unique: the name with the default file extension appended, or
\* with its file extension replaced.
PlainNames(i) ==
  { validate(ItemName(i) \o << default_file_extension >>) } \cup
  { validate(get_filename_with_new_file_extension(ItemName(i), e)) :
      e \in ProcedureFileExtensions }

\* No two items with the same parents have the same name.
UniqueAmongSiblings ==
  \A i, j \in ProcessedItems :
    (i # j /\ items[i].parents = items[j].parents) => items[i].name # items[j].name

\* What makes a name unique is not in the file extension: the name ends with
\* the file extension it was given.
SuffixBeforeFileExtension ==
  \A i \in ProcessedItems :
    get_file_extension(items[i].name) \in ProcedureFileExtensions

\* A name was changed to make it unique only if the name it was given was
\* taken by an item with the same parents: the names of items with other
\* parents do not count.
NoCollisionAcrossParents ==
  \A i \in ProcessedItems :
    items[i].name \notin PlainNames(i) =>
      \E plain \in PlainNames(i) : << items[i].parents, plain >> \in uniquified

\* The file paths made of the names of the items differ from each other.
DistinctFilepaths ==
  \A i, j \in ProcessedItems :
    i # j => _get_item_filepath(items[i]) # _get_item_filepath(items[j])

\* C30 (amended): within one export run with process_names true, after name
\* processing no two distinct items with the same parents have the same name,
\* so that the file paths made of the names of the items differ from each
\* other; a name is made unique before its file extension, and equal names
\* under different parents do not collide.  (The file written for an item
\* has another path than the one made of its name if the overwrite mode
\* 'rename new' was chosen for it.)
C30_NamesUniqueAmongSiblings ==
  /\ UniqueAmongSiblings
  /\ SuffixBeforeFileExtension
  /\ NoCollisionAcrossParents
  /\ DistinctFilepaths

\* The step ends a call of the export procedure that has written a file.
FileWritten ==
  /\ Len(calls') = Len(calls) + 1
  /\ calls'[Len(calls')].outcome = << >>

\* C30 as stated: in addition, no two items of the run are exported to the
\* same file path; here, no item is written to the path of the file an
\* earlier item was written to under a new name.
C30_NoTwoItemsExportedToSamePath ==
  /\ [](UniqueAmongSiblings /\ SuffixBeforeFileExtension
          /\ NoCollisionAcrossParents /\ DistinctFilepaths)
  /\ [][FileWritten => calls'[Len(calls')].output_filepath \notin renamed_new]_vars

\* Two layers at the top of the tree were given the same name and the second
\* one was renamed.
C30_Witness ==
  /\ pc = "done"
  /\ result.state = "returned"
  /\ \E i, j \in ProcessedItems :
       /\ items[i].parents = items[j].parents
       /\ items[i].name = << "a", default_file_extension >>
       /\ items[j].name = << "a (1)", default_file_extension >>

(* ------------------------------- C31 ----------------------------------- *)

\* handle_overwrite has returned to _export_item with a mode other than SKIP
\* and CANCEL: the export procedure is about to be called for the first time
\* with the returned path.
OverwriteHandled ==
  /\ pc = "export_once"
  /\ calls = << >>

\* The path _export_item passed to handle_overwrite.
PassedFilepath == _get_item_filepath(items[idx])

\* C31 (amended): when handle_overwrite returns a mode other than SKIP, CANCEL
\* and REPLACE, no file exists at the returned path: a path that did not
\* exist is returned unchanged with the mode DO_NOTHING, the chooser not
\* consulted; RENAME_NEW returns another path than the one passed, which
\* exists; RENAME_EXISTING returns the path passed, the file renamed.  With
\* REPLACE the path passed is returned and the file exists.
C31_ReturnedPathFreeUnlessReplace ==
  OverwriteHandled =>
    /\ current_overwrite_mode # "REPLACE" => output_filepath \notin files
    /\ current_overwrite_mode = "REPLACE" =>
         output_filepath = PassedFilepath /\ output_filepath \in files
    /\ current_overwrite_mode = "RENAME_NEW" =>
         output_filepath # PassedFilepath /\ PassedFilepath \in files
    /\ current_overwrite_mode \in {"DO_NOTHING", "RENAME_EXISTING"} =>
         output_filepath = PassedFilepath
    /\ PassedFilepath \notin files =>
         current_overwrite_mode \in {"DO_NOTHING", "RENAME_EXISTING"}
    /\ decisions[Len(decisions)] = current_overwrite_mode

\* C31 as stated: whenever handle_overwrite returns a mode other than SKIP and
\* CANCEL, no file exists at the returned path.
C31_ReturnedPathNeverExists ==
  OverwriteHandled => output_filepath \notin files

\* handle_overwrite was called for a path that exists and has returned
\* another path with the mode RENAME_NEW.
C31_Witness ==
  /\ OverwriteHandled
  /\ current_overwrite_mode = "RENAME_NEW"
  /\ PassedFilepath \in files
  /\ output_filepath # PassedFilepath

(* ------------------------------- C32 ----------------------------------- *)

\* The stored previous version loads: a source holds it, no source that has
\* data fails to be read, and what was read is a version.
StoredVersionLoads ==
  /\ \E n \in DOMAIN sources : sources[n].readable
  /\ \A n \in DOMAIN sources : sources[n].has_data => sources[n].readable
  /\ ~VersionParse(LoadedValue(sources, Len(sources), plugin_version)).is_none

\* The stored previous version is the version of the plug-in.
StoredVersionIsCurrent ==
  VersionParse(LoadedValue(sources, Len(sources), plugin_version)) =
    VersionParse(PLUGIN_VERSION)

\* The user is asked and confirms, or the settings are to be cleared without
\* asking.
ToBeCleared ==
  \/ update_call'.handle_invalid = "clear"
  \/ update_call'.handle_invalid = "ask_to_clear" /\ update_call'.response = "YES"

\* The status the call of update() is to return.
StatusAsStated ==
  IF \A n \in DOMAIN sources : ~sources[n].has_data THEN FRESH_START
  ELSE IF StoredVersionLoads
    THEN IF StoredVersionIsCurrent THEN NO_ACTION ELSE UPDATE
  ELSE IF ToBeCleared THEN CLEAR_SETTINGS
  ELSE TERMINATE

\* C32: update() returns FRESH_START if no source has data, and then only the
\* plug-in version is saved; otherwise NO_ACTION if the stored previous
\* version loads and is the current version, no source modified; UPDATE if it
\* loads and differs; if it cannot be loaded or parsed, CLEAR_SETTINGS with
\* the sources cleared when handle_invalid is 'clear' or the user confirms,
\* TERMINATE with the sources untouched otherwise.
C32_UpdateStatusAsStated ==
  [][/\ update_call'.status = StatusAsStated
     /\ update_call'.status = FRESH_START =>
          \A n \in DOMAIN sources : sources'[n] = SourceWith(PLUGIN_VERSION)
     /\ update_call'.status \in {NO_ACTION, TERMINATE} => sources' = sources
     /\ update_call'.status = CLEAR_SETTINGS =>
          \A n \in DOMAIN sources : ~sources'[n].has_data]_vars

(* ------------------------------- C33 ----------------------------------- *)

\* The rules a filter or subfilter holds.
RuleSet(rules) == { rules[k] : k \in 1..Len(rules) }

\* The rules the enabled constraints of the subfilter 'layer_types' have
\* added to it before _init_tagged_layer_elems is called.
LayerTypeRulesBefore ==
  { CalledConstraints(TRUE)[k].function : k \in 1..Len(CalledConstraints(TRUE)) }

\* export() is at a place where no `with` block of _preprocess_layers is
\* open, _set_layer_constraints having made the subfilter.
NoBlockOpen == pc \in {"init_tagged_layer_elems", "set_constraints", "preprocessed", "done"}

\* export() is before or after the blocks of _init_tagged_layer_elems, or has
\* been left by an exception of theirs.
AroundTaggedBlock ==
  \/ pc \in {"init_tagged_layer_elems", "set_constraints"}
  \/ pc = "done" /\ result.exc = BlockError("_init_tagged_layer_elems")

\* export() is after the block of _preprocess_layers or the place of it, or
\* has been left by an exception of the block.
AroundKeepImageCopyBlock ==
  \/ pc = "preprocessed"
  \/ pc = "done" /\ result.exc = BlockError("_preprocess_layers")

\* C33: a rule added or removed for the time of a block of
\* _init_tagged_layer_elems or _preprocess_layers is taken back or put back
\* when the block is left, by a return or by an exception: after the block
\* the filter and its subfilter 'layer_types' hold exactly the rules they
\* held before the block, each rule once.
C33_TemporaryRulesUndone ==
  NoBlockOpen =>
    /\ temp_rules = << >>
    /\ RuleSet(subfilters["layer_types"]) = LayerTypeRulesBefore
    /\ Len(subfilters["layer_types"]) = Cardinality(LayerTypeRulesBefore)
    /\ DOMAIN subfilters = {"layer_types"}
    /\ AroundTaggedBlock => filter = << >>
    /\ AroundKeepImageCopyBlock => filter = RulesAdded(CalledConstraints(FALSE))

\* The block of _preprocess_layers, for which the rule of the empty groups
\* was removed from the subfilter, has raised, and the subfilter holds the
\* rule, after the rule of the layer groups.
C33_Witness ==
  /\ pc = "done"
  /\ result.exc = BlockError("_preprocess_layers")
  /\ filter # << >>
  /\ subfilters["layer_types"] = << "is_nonempty_group", "is_empty_group" >>
  /\ constraints[1].function = "is_empty_group"

(* ------------------------------- C34 ----------------------------------- *)

\* The step that calls the export procedure once for the current item.
ExportCall == pc = "export_once" /\ Len(calls') = Len(calls) + 1

\* The call the step makes.
CallMade == calls'[Len(calls')]

\* The record of the JPEG format, before and after the step.
JpegRecord == file_extension_properties["jpg"]
JpegRecordAfter == file_extension_properties'["jpg"]

\* No export call for the format was made earlier in the run: none for the
\* current item, and no item of the format was counted.
FirstCallForFormat == calls = << >> /\ JpegRecord.processed_count = 0

\* Every extension of the format, in any letter case, reads the one record.
OneRecordForAllExtensions ==
  \A e \in JpegExtensions :
    \A mode \in {RUN_INTERACTIVE, RUN_NONINTERACTIVE} :
      /\ _get_run_mode(mode, e, file_extension_properties)
           = IF JpegRecord.is_valid /\ JpegRecord.processed_count > 0
               THEN RUN_WITH_LAST_VALS ELSE mode
      /\ _get_run_mode(mode, e, file_extension_properties')
           = IF JpegRecordAfter.is_valid /\ JpegRecordAfter.processed_count > 0
               THEN RUN_WITH_LAST_VALS ELSE mode

\* The call that ends the export of the item for good counts the item in
\* the record of the format; the call that asks for the default extension
\* marks the record of the format invalid.
RecordWrittenForAllExtensions ==
  /\ pc' = "after_item" =>
       JpegRecordAfter = [JpegRecord EXCEPT !.processed_count = @ + 1]
  /\ export_status' = USE_DEFAULT_FILE_EXTENSION /\ pc' = "export_item" =>
       JpegRecordAfter = [JpegRecord EXCEPT !.is_valid = FALSE]

RunStarts == pc = "idle" /\ pc' # "idle"

\* C35: each call of Batcher.run() builds a new item tree at the start of
\* processing unless the caller supplied an existing item tree (at
\* construction or as a keyword argument of run()); a tree is reused across
\* runs only when the caller supplied it.
C35_NewTreePerRunUnlessSupplied ==
  [][RunStarts =>
       \/ item_tree'.by = "caller"
       \/ /\ item_tree' = BuiltTree(trees_built + 1)
          /\ trees_built' = trees_built + 1]_vars

(* ------------------------------- C36 ----------------------------------- *)

\* Batcher.run() has ended, by a return or by an exception, on a Batcher
\* that processes the contents.
RunEndedWithContents ==
  cfg.impl = "Batcher" /\ cfg.process_contents /\ pc = "done"

\* C36: on every exit path of Batcher.run() with process_contents true
\* (normal return, exception in the processing of an item, exception during
\* setup, exception raised by a 'cleanup_contents' action), every context push
\* is matched by exactly one context pop and every undo freeze (or undo-group
\* start) by exactly one undo thaw (or undo-group end).
C36_PushesAndFreezesMatched ==
  RunEndedWithContents =>
    /\ eff.context_pop = eff.context_push
    /\ eff.undo_thaw = eff.undo_freeze
    /\ eff.undo_group_end = eff.undo_group_start

(* ------------------------------- C37 ----------------------------------- *)

\* The configured action is a PDB procedure under a name the host does not
\* know.
UnknownPdbProcedure(setting) ==
  setting.is_pdb_procedure /\ setting.function \notin PdbProcedures

\* The configured actions, procedures and constraints.
ConfiguredActions ==
  { procedures[i] : i \in DOMAIN procedures } \cup { constraints[i] : i \in DOMAIN constraints }

\* run() ends at once with InvalidPdbProcedureError.
RaisesInvalidPdbProcedure ==
  /\ pc' = "done"
  /\ result'.state = "raised"
  /\ result'.exc.type = "InvalidPdbProcedureError"

\* C37: the names of the PDB procedures are resolved for every configured
\* action when the actions are installed, before the enabled flag and the tags
\* of the action are looked at: run() raises InvalidPdbProcedureError for a
\* configured PDB procedure of an unknown name, also when the action is
\* disabled or has none of the tags of the group being installed; it raises
\* that error for no other configuration.
C37_ResolvedBeforeEnabledAndTags ==
  [][(pc = "idle" /\ pc' # "idle") =>
       /\ \A setting \in ConfiguredActions :
            (/\ UnknownPdbProcedure(setting)
             /\ ~setting.enabled \/ NAME_ONLY_TAG \notin setting.tags)
               => RaisesInvalidPdbProcedure
       /\ RaisesInvalidPdbProcedure =>
            \E setting \in ConfiguredActions : UnknownPdbProcedure(setting)]_vars

\* run() has raised for a configuration whose only procedure is disabled,
\* lacks the tag of the name-only group and names a PDB procedure that does
\* not exist.
C37_Witness ==
  /\ pc = "done"
  /\ result.state = "raised"
  /\ result.exc.type = "InvalidPdbProcedureError"
  /\ Len(procedures) = 1
  /\ UnknownPdbProcedure(procedures[1])
  /\ ~procedures[1].enabled
  /\ NAME_ONLY_TAG \notin procedures[1].tags
  /\ invoked = << >>

(* ------------------------------- C38 ----------------------------------- *)

\* The step raises the cancellation of a stopped run.
RaisesStoppedByUser == exc'.type = "CancelError" /\ exc.type # "CancelError"

\* The loop over the items has no item left and the step leaves it.
LeavesLoopAfterLastItem == pc = "loop" /\ idx > NumItems /\ pc' # "loop"

\* C38: a stop() request does not outlive its run and is only seen at the
\* top of an item iteration.  The request made before run() starts is
\* discarded when the run is prepared; the cancellation is raised only at the
\* top of the loop with an item still to process; with no item left (stop()
\* was called while the last item was processed, or later) the loop ends
\* without a cancellation and the run goes on to the 'after_process_items'
\* actions.
C38_StopSeenOnlyAtTopOfIteration ==
  [][/\ RunStarts => ~should_stop'
     /\ RaisesStoppedByUser => pc = "loop" /\ should_stop /\ idx <= NumItems
     /\ (pc = "loop" /\ idx <= NumItems /\ should_stop /\ pc' # "loop") =>
          RaisesStoppedByUser
     /\ LeavesLoopAfterLastItem =>
          /\ exc' = NoError
          /\ cfg.impl = "Batcher" => pc' = "after_items"]_vars

\* stop() was called, every item was processed and run() has returned.
C38_Witness ==
  /\ pc = "done"
  /\ should_stop
  /\ idx = NumItems + 1
  /\ progress.num_finished_tasks = NumItems
  /\ result.state = "returned"
  /\ exc = NoError

(* ------------------------------- C39 ----------------------------------- *)

\* The items the filter of the item tree lets through.
ItemsToProcess == { i \in 1..NumItems : ItemMatches(i, filter) }

\* The step processes one item from its first procedure to its last.
ItemProcessed == pc = "process_item" /\ pc' = "loop"

\* What holds of the progress whatever the user does during the run: the
\* reset and the total at the start of the run, and one call of update_tasks()
\* for each processed item, with its procedures.
ProgressSteps ==
  /\ (RunStarts /\ pc' # "done") =>
       /\ progress'.num_finished_tasks = 0
       /\ progress'.num_total_tasks = Cardinality(ItemsToProcess')
       /\ idx' = 0
  /\ ItemProcessed =>
       /\ progress'.num_finished_tasks = progress.num_finished_tasks + 1
       /\ progress'.num_total_tasks = progress.num_total_tasks
       /\ Len(invoked') >= Len(invoked)
  /\ (~RunStarts /\ ~ItemProcessed) => progress' = progress
  /\ progress'.num_finished_tasks <= progress'.num_total_tasks

\* The step with which run() returns.
RunReturns == pc' = "done" /\ result'.state = "returned" /\ pc # "done" /\ ~RunStarts

ExportOptionsRequested ==
  /\ options_call' # options_call
  /\ options_call'.import_or_export = "export"
  /\ options_call'.file_format \in KnownExtensions
  /\ FormatOf(options_call'.file_format).export_procedure_name \in DOMAIN PdbFileProcedures

\* The first extension of the format the request names.
FirstExtension == FormatOf(options_call'.file_format).file_extensions[1]

\* C40: fill_and_get_file_format_options_as_kwargs gives the same result for
\* every extension of one file format: for an extension of a known format
\* whose export procedure exists it returns the keyword arguments of the
\* options stored for the format's first extension, never None; and a call for
\* a format whose options are already filled leaves the stored options
\* unchanged.
C40_SameOptionsForEveryExtension ==
  [][ExportOptionsRequested =>
       /\ options_call'.returned = "kwargs"
       /\ FirstExtension \in DOMAIN file_format_options'
       /\ options_call'.kwargs = OptionsAsKwargs(file_format_options'[FirstExtension])
       /\ FirstExtension \in DOMAIN file_format_options =>
            file_format_options' = file_format_options]_vars

====
